---- MODULE Spec2Model ----
(***************************************************************************)
(* Period-comparison reports of the FemiSafe dashboard.                    *)
(*                                                                         *)
(* The fetched Blinkit sales rows (df) are aggregated by a two-level key   *)
(* and compared over three reference dates (D-7, D-1, latest).  Four       *)
(* implementations of the hierarchical table exist in the repository:      *)
(*   AppSkuReport   app.py "SKU Sales Report"   (sku -> feeder_wh)         *)
(*   AppCityReport  app.py "City Sales Report"  (feeder_wh -> sku)         *)
(*   PageCity       pages/secondary/blinkit/blinkit_citywise_performance   *)
(*   PageProduct    pages/secondary/blinkit/blinkit_productwise_performance*)
(* A record of df is written [top, child, date, quantity, net_revenue]:    *)
(* top is the column the report groups by first, child the second one.     *)
(* Names are sequences of words, money is in whole rupees, Growth % is     *)
(* kept in hundredths of a percent (round(x, 2) * 100).                    *)
(***************************************************************************)
EXTENDS Integers, Sequences, FiniteSets, Bags, TLC

\* ------------------------------------------------------------------ bounds
MaxRecords == 3

\* the values the fetched rows are drawn from
Keys     == { << <<"G1">>, <<"A">> >>, << <<"G1">>, <<"B">> >>,
              << <<"G2">>, <<"A">> >>, << <<"G2">>, <<"Z", "Total">> >> }   \* <<top, child>>
Days     == { 1, 7, 8 }
\* <<quantity, net_revenue>> of the rows of one day
MetricsOn(d) ==
    CASE d = 1 -> { <<0, 0>>, <<2, 100>> }
      [] d = 7 -> { <<1, 50>> }
      [] d = 8 -> { <<0, 0>>, <<1, 50>>, <<2, 150>> }

RecordPool ==
    { [top |-> x[1][1], child |-> x[1][2], date |-> x[2],
       quantity |-> x[3][1], net_revenue |-> x[3][2]] :
        x \in { y \in Keys \X Days \X { <<0, 0>>, <<1, 50>>, <<2, 100>>, <<2, 150>> } :
                    y[3] \in MetricsOn(y[2]) } }

\* ------------------------------------------------------------------ state
VARIABLES
    df,         \* bag of fetched rows (the cached result of get_blinkit_data)
    report,     \* the report that was built: "none" before any
    outcome,    \* "idle", "table", "nodata" (st.warning + return) or "error" (exception)
    columns,    \* dates that have a quantity_/net_revenue_ column in the table
    final_df    \* rows of the rendered table, in order

\* the ad spend reports (Blinkit ad page, app.py "Ad Report")
VARIABLES
    df_ad,        \* bag of rows of femisafe_blinkit_addata
    df_sales,     \* bag of rows of femisafe_blinkit_salesdata
    ad_frame,     \* column -> dtype of the df_ad frame the caller holds
    target_date,  \* the selected report date (0 before any report ran)
    ad_report,    \* the ad report that was built: "none" before any
    ad_outcome,   \* "idle", "table", "nodata" or "error"
    ad_final      \* rows of the rendered ad table, in order

\* the monthly chart of the overall sales overview page
VARIABLES
    ov_df,        \* bag of rows of femisafe_sales as get_overall_sales_data returns them
    ov_outcome,   \* "idle", "chart" or "nodata"
    df_monthly    \* the rows of df_monthly, in order

\* metric coercion of one raw cell
VARIABLES
    raw_value,      \* the text of a raw metric cell, as a sequence of pieces
    coerce_outcome, \* "idle", "kept" (the row is loaded) or "failed" (the load raised)
    coerced         \* the number the cell became, in hundredths

\* Blinkit sales dashboard
VARIABLES
    dash_df,        \* the frame get_blinkit_data returned, rows in table order
    dash_outcome,   \* "idle", "nodata" or "shown"
    total_rev,      \* the revenue KPI of the page
    summary_df      \* the summary table: product -> revenue

\* column lookup
VARIABLES
    src_columns,    \* the column names of the source table, in table order
    lookup_by,      \* "none", "find_col" or "get_valid_product_col"
    found_col       \* the column the lookup returned, NoColumn when it found none

\* Flipkart sales dashboard
VARIABLES
    fk_rows,        \* the rows fetched from femisafe_flipkart_salesdata, in table order
    fk_now,         \* pd.Timestamp.now(), as a day number
    fk_runs         \* what each run of the dashboard showed, oldest first

\* product name normalizer
VARIABLES
    raw_name,       \* a raw product name: its words, and how it is cased
    norm_step,      \* how many times normalize_product was applied: 0, 1 or 2
    norm_once,      \* normalize_product(raw_name)
    norm_twice      \* normalize_product(normalize_product(raw_name))

\* data assistant
VARIABLES
    ask_pc,         \* where ask_data_assistant stands: "start", "run", "summarize", "done"
    response_text,  \* the text the model answered the SQL prompt with, in pieces
    sql_query,      \* the query taken from the answer
    generate_calls, \* how many times model.generate_content was called
    sql_runs,       \* how many times a query was run
    failed_at,      \* the step that raised: "none", "generate", "run" or "summarize"
    ask_result      \* the returned value: success, and the sql it reports

\* DRR report
VARIABLES
    drr_rows,       \* the rows of the three channel tables
    drr_failed,     \* the <<channel, day>> fetches that raised in the run
    drr_outcome,    \* "idle", "nodata" or "table"
    master_df       \* the rendered rows, GRAND TOTAL last

\* metric columns of the ad reports
VARIABLES
    ad_columns,     \* the columns of the ad table, in table order
    sales_columns,  \* the columns of the sales table, in table order
    schema_report,  \* "none", "swiggy" or "blinkit": whose process_data ran
    schema_outcome, \* "idle", "error", "nodata", "raised" or "table"
    spend_from,     \* the column the ad spend of the table was read from
    revenue_from    \* the column the revenue of the table was read from

\* daily email bot
VARIABLES
    shopify_table,  \* the total_sales values of femisafe_shopify_salesdata, in table order
    amazon_table,   \* the ordered_product_sales values of femisafe_amazon_salesdata
    bot_pc,         \* where the script stands: "start", "fetched", "send", "done"
    fetch_failed,   \* whether get_data caught a database error
    df_shopify,     \* the frame get_data returned for Shopify
    df_amazon,      \* the frame get_data returned for Amazon
    send_failed_at, \* the SMTP call that raised, "none" when none did
    emails_sent,    \* the messages handed to the SMTP server and accepted
    bot_log,        \* the lines the script printed after connecting
    bot_raised      \* whether an exception left the script

\* Flipkart header fix
VARIABLES
    raw_keys,       \* result.keys() of the Flipkart query, in column order
    clean_keys,     \* the column names the loader gives the frame
    keys_fixed      \* whether the header fix has run

salesVars == <<df, report, outcome, columns, final_df>>
adVars    == <<df_ad, df_sales, ad_frame, target_date, ad_report, ad_outcome, ad_final>>
ovVars    == <<ov_df, ov_outcome, df_monthly>>
coerceVars == <<raw_value, coerce_outcome, coerced>>
dashVars == <<dash_df, dash_outcome, total_rev, summary_df>>
colsVars == <<src_columns, lookup_by, found_col>>
fkVars == <<fk_rows, fk_now, fk_runs>>
normVars == <<raw_name, norm_step, norm_once, norm_twice>>
askVars == <<ask_pc, response_text, sql_query, generate_calls, sql_runs, failed_at, ask_result>>
drrVars == <<drr_rows, drr_failed, drr_outcome, master_df>>
schemaVars == <<ad_columns, sales_columns, schema_report, schema_outcome, spend_from, revenue_from>>
botVars == <<shopify_table, amazon_table, bot_pc, fetch_failed, df_shopify, df_amazon, send_failed_at, emails_sent, bot_log, bot_raised>>
hdrVars == <<raw_keys, clean_keys, keys_fixed>>
vars      == <<salesVars, adVars, ovVars, coerceVars, dashVars, colsVars, fkVars, normVars, askVars, drrVars, schemaVars, botVars, hdrVars>>

\* what the variables of the ad reports hold while no ad report is in use
RawAdFrame ==
    [ c \in {"date", "product_name", "estimated_budget_consumed", "direct_sales"} |-> "object" ]
AdIdle ==
    /\ df_ad = EmptyBag
    /\ df_sales = EmptyBag
    /\ ad_frame = RawAdFrame
    /\ target_date = 0
    /\ ad_report = "none"
    /\ ad_outcome = "idle"
    /\ ad_final = <<>>
\* the variables of the sales reports while no sales report is in use
SalesIdle ==
    /\ df = EmptyBag
    /\ report = "none"
    /\ outcome = "idle"
    /\ columns = {}
    /\ final_df = <<>>
\* the variables of the overall sales overview while it is not in use
OvIdle ==
    /\ ov_df = EmptyBag
    /\ ov_outcome = "idle"
    /\ df_monthly = <<>>
\* no raw cell read yet
CoerceIdle ==
    /\ raw_value = <<>>
    /\ coerce_outcome = "idle"
    /\ coerced = 0
\* no dashboard row loaded, no dashboard shown
DashIdle ==
    /\ dash_df = <<>>
    /\ dash_outcome = "idle"
    /\ total_rev = 0
    /\ summary_df = <<>>
\* no source column read, no lookup done
ColsIdle ==
    /\ src_columns = <<>>
    /\ lookup_by = "none"
    /\ found_col = [ name |-> "", cased |-> "lower" ]
\* no Flipkart row fetched, no dashboard shown
FkIdle ==
    /\ fk_rows = <<>>
    /\ fk_now = 365
    /\ fk_runs = <<>>
\* no product name read, nothing normalized
NormIdle ==
    /\ raw_name = [ words |-> <<>>, cased |-> "lower" ]
    /\ norm_step = 0
    /\ norm_once = [ words |-> <<>>, cased |-> "lower" ]
    /\ norm_twice = [ words |-> <<>>, cased |-> "lower" ]
\* no question asked
AskIdle ==
    /\ ask_pc = "start"
    /\ response_text = <<>>
    /\ sql_query = <<>>
    /\ generate_calls = 0
    /\ sql_runs = 0
    /\ failed_at = "none"
    /\ ask_result = [ success |-> FALSE, sql |-> <<>> ]
\* no channel row stored, no DRR report shown
DrrIdle ==
    /\ drr_rows = {}
    /\ drr_failed = {}
    /\ drr_outcome = "idle"
    /\ master_df = <<>>
\* no ad or sales table described, no report built from them
SchemaIdle ==
    /\ ad_columns = <<>>
    /\ sales_columns = <<>>
    /\ schema_report = "none"
    /\ schema_outcome = "idle"
    /\ spend_from = [ name |-> "", cased |-> "lower" ]
    /\ revenue_from = [ name |-> "", cased |-> "lower" ]
\* the email bot has not run
BotIdle ==
    /\ shopify_table = <<>>
    /\ amazon_table = <<>>
    /\ bot_pc = "start"
    /\ fetch_failed = FALSE
    /\ df_shopify = <<>>
    /\ df_amazon = <<>>
    /\ send_failed_at = "none"
    /\ emails_sent = 0
    /\ bot_log = <<>>
    /\ bot_raised = FALSE
\* no Flipkart result key read, header fix not run
HdrIdle ==
    /\ raw_keys = <<>>
    /\ clean_keys = <<>>
    /\ keys_fixed = FALSE
\* nothing fetched, no report built
Idle == SalesIdle /\ AdIdle /\ OvIdle /\ CoerceIdle /\ DashIdle /\ ColsIdle /\ FkIdle /\ NormIdle /\ AskIdle /\ DrrIdle /\ SchemaIdle /\ BotIdle /\ HdrIdle
\* the variables that each part of the program leaves alone
notSales == <<adVars, ovVars, coerceVars, dashVars, colsVars, fkVars, normVars, askVars, drrVars, schemaVars, botVars, hdrVars>>
notAd == <<salesVars, ovVars, coerceVars, dashVars, colsVars, fkVars, normVars, askVars, drrVars, schemaVars, botVars, hdrVars>>
notOv == <<salesVars, adVars, coerceVars, dashVars, colsVars, fkVars, normVars, askVars, drrVars, schemaVars, botVars, hdrVars>>
notCoerce == <<salesVars, adVars, ovVars, dashVars, colsVars, fkVars, normVars, askVars, drrVars, schemaVars, botVars, hdrVars>>
notDash == <<salesVars, adVars, ovVars, coerceVars, colsVars, fkVars, normVars, askVars, drrVars, schemaVars, botVars, hdrVars>>
notCols == <<salesVars, adVars, ovVars, coerceVars, dashVars, fkVars, normVars, askVars, drrVars, schemaVars, botVars, hdrVars>>
notFk == <<salesVars, adVars, ovVars, coerceVars, dashVars, colsVars, normVars, askVars, drrVars, schemaVars, botVars, hdrVars>>
notNorm == <<salesVars, adVars, ovVars, coerceVars, dashVars, colsVars, fkVars, askVars, drrVars, schemaVars, botVars, hdrVars>>
notAsk == <<salesVars, adVars, ovVars, coerceVars, dashVars, colsVars, fkVars, normVars, drrVars, schemaVars, botVars, hdrVars>>
notDrr == <<salesVars, adVars, ovVars, coerceVars, dashVars, colsVars, fkVars, normVars, askVars, schemaVars, botVars, hdrVars>>
notSchema == <<salesVars, adVars, ovVars, coerceVars, dashVars, colsVars, fkVars, normVars, askVars, drrVars, botVars, hdrVars>>
notBot == <<salesVars, adVars, ovVars, coerceVars, dashVars, colsVars, fkVars, normVars, askVars, drrVars, schemaVars, hdrVars>>
notHdr == <<salesVars, adVars, ovVars, coerceVars, dashVars, colsVars, fkVars, normVars, askVars, drrVars, schemaVars, botVars>>

\* ------------------------------------------------------------------ helpers
RECURSIVE Sum(_)
\* sum of the values of a function with a finite domain (Series.sum)
Sum(f) ==
    IF DOMAIN f = {} THEN 0
    ELSE LET x == CHOOSE y \in DOMAIN f : TRUE
         IN  f[x] + Sum([y \in DOMAIN f \ {x} |-> f[y]])

Max(S) == CHOOSE x \in S : \A y \in S : y <= x

\* order of the words used in names, as str comparison orders them
WordOrder == << "A", "All", "B", "Cities", "G1", "G2", "Grand", "Total", "Z" >>
WordRank(w) == CHOOSE i \in 1..Len(WordOrder) : WordOrder[i] = w

RECURSIVE LexLess(_, _)
\* a < b for two names (Python str <)
LexLess(a, b) ==
    IF b = <<>> THEN FALSE
    ELSE IF a = <<>> THEN TRUE
    ELSE IF Head(a) # Head(b) THEN WordRank(Head(a)) < WordRank(Head(b))
    ELSE LexLess(Tail(a), Tail(b))

\* str.contains('Total')
ContainsTotal(name) == \E i \in 1..Len(name) : name[i] = "Total"

\* round(n / d, 0) for d > 0, ties to even (Python round)
RoundDiv(n, d) ==
    LET q == n \div d
        r == n - q * d
    IN  IF 2 * r < d THEN q
        ELSE IF 2 * r > d THEN q + 1
        ELSE IF q % 2 = 0 THEN q ELSE q + 1

Blank  == <<>>        \* the "" of a Growth % cell
Pct(h) == <<h>>       \* a Growth % of h hundredths of a percent

\* 0 if prev == 0 else round(((curr - prev) / prev) * 100, 2)
GuardedGrowth(curr, prev) ==
    IF prev = 0 THEN Pct(0) ELSE Pct(RoundDiv((curr - prev) * 10000, prev))

\* ------------------------------------------------------------------ dates
D1Offset == 1
D7Offset == 7
\* the smallest date of the frame, in place of the largest
earliest_date(d) == CHOOSE x \in { r.date : r \in BagToSet(d) } :
                        \A y \in { r.date : r \in BagToSet(d) } : x <= y
latest_date(d) == Max({ r.date : r \in BagToSet(d) })
d1_date(lat)   == lat - D1Offset
d7_date(lat)   == lat - D7Offset

\* every fetched row kept, whatever its date
df_unfiltered(d, lat) == BagToSet(d)

\* df[df['date'].isin([d7_date, d1_date, latest_date])], as the set of kept rows
df_filtered(d, lat) ==
    { r \in BagToSet(d) : r.date \in { d7_date(lat), d1_date(lat), lat } }

\* groupby([top, child, date]).agg(sum): the summed metric of one bucket
grouped(d, F, k, dt, metric) ==
    LET S == { r \in F : r.top = k[1] /\ r.child = k[2] /\ r.date = dt }
    IN  Sum([r \in S |-> CopiesIn(r, d) * r[metric]])

KeyLess(a, b) == LexLess(a[1], b[1]) \/ (a[1] = b[1] /\ LexLess(a[2], b[2]))

RECURSIVE SortedKeys(_)
\* the keys of a set in index order (pivot_table and groupby sort their keys)
SortedKeys(S) ==
    IF S = {} THEN <<>>
    ELSE LET m == CHOOSE x \in S : \A y \in S \ {x} : KeyLess(x, y)
         IN  <<m>> \o SortedKeys(S \ {m})

\* vals[latest] - vals[d7] when both columns exist, else 0
\* (if q_latest in pivot.columns and q_d7 in pivot.columns: ... else: 0)
Delta(vals, lat) ==
    IF {lat, d7_date(lat)} \subseteq DOMAIN vals
    THEN vals[lat] - vals[d7_date(lat)]
    ELSE 0

\* pivot_table(index=[top, child], columns='date', fill_value=0) of the kept
\* rows, in index order, with the two delta columns
pivot(d, lat) ==
    LET F    == df_filtered(d, lat)
        cols == { r.date : r \in F }
        keys == SortedKeys({ <<r.top, r.child>> : r \in F })
    IN  [ i \in 1..Len(keys) |->
            LET q   == [dt \in cols |-> grouped(d, F, keys[i], dt, "quantity")]
                rev == [dt \in cols |-> grouped(d, F, keys[i], dt, "net_revenue")]
            IN  [ kind |-> "Leaf", top |-> keys[i][1], child |-> keys[i][2],
                  quantity |-> q, net_revenue |-> rev,
                  UnitsDelta   |-> Delta(q, lat),
                  RevenueDelta |-> Delta(rev, lat) ] ]

\* the date columns of a frame
DateColumns(rows) == IF rows = <<>> THEN {} ELSE DOMAIN rows[1].quantity

\* the rows of a frame whose first-level column equals g
GroupRows(rows, g) == SelectSeq(rows, LAMBDA r : r.top = g)

\* rows[col].sum() for one date column of one metric
SumCol(rows, metric, dt) == Sum([i \in 1..Len(rows) |-> rows[i][metric][dt]])

RECURSIVE SortedNames(_)
\* names in str order
SortedNames(S) ==
    IF S = {} THEN <<>>
    ELSE LET m == CHOOSE x \in S : \A y \in S \ {x} : LexLess(x, y)
         IN  <<m>> \o SortedNames(S \ {m})

\* the first-level values of a frame in groupby order
groupby_top(rows) == SortedNames({ rows[i].top : i \in 1..Len(rows) })

\* Growth % of a summary row of the page reports: guarded when both revenue
\* columns exist, 0 otherwise
PageGrowth(rev, lat) ==
    IF {lat, d7_date(lat)} \subseteq DOMAIN rev
    THEN GuardedGrowth(rev[lat], rev[d7_date(lat)])
    ELSE Pct(0)

\* a subtotal or grand-total row of the page reports, built from the sums of rows
SummaryRow(kind, top, child, rows, lat) ==
    LET cols == DateColumns(rows)
        q    == [dt \in cols |-> SumCol(rows, "quantity", dt)]
        rev  == [dt \in cols |-> SumCol(rows, "net_revenue", dt)]
    IN  [ kind |-> kind, top |-> top, child |-> child,
          quantity |-> q, net_revenue |-> rev,
          UnitsDelta   |-> Delta(q, lat),
          RevenueDelta |-> Delta(rev, lat),
          Growth       |-> PageGrowth(rev, lat) ]

\* WithBlankGrowth writing 0 instead of "" into the Growth % cells
WithZeroGrowth(rows) ==
    [ i \in 1..Len(rows) |->
        [ kind |-> rows[i].kind, top |-> rows[i].top, child |-> rows[i].child,
          quantity |-> rows[i].quantity, net_revenue |-> rows[i].net_revenue,
          UnitsDelta |-> rows[i].UnitsDelta, RevenueDelta |-> rows[i].RevenueDelta,
          Growth |-> Pct(0) ] ]

\* group['Growth %'] = "" on every row of a group
WithBlankGrowth(rows) ==
    [ i \in 1..Len(rows) |->
        [ kind |-> rows[i].kind, top |-> rows[i].top, child |-> rows[i].child,
          quantity |-> rows[i].quantity, net_revenue |-> rows[i].net_revenue,
          UnitsDelta |-> rows[i].UnitsDelta, RevenueDelta |-> rows[i].RevenueDelta,
          Growth |-> Blank ] ]

RECURSIVE Concat(_)
\* pd.concat of a list of frames
Concat(frames) ==
    IF frames = <<>> THEN <<>> ELSE Head(frames) \o Concat(Tail(frames))

WithLabels(rows, labels) ==
    [ i \in 1..Len(rows) |->
        [ kind |-> rows[i].kind, top |-> rows[i].top, child |-> rows[i].child,
          quantity |-> rows[i].quantity, net_revenue |-> rows[i].net_revenue,
          UnitsDelta |-> rows[i].UnitsDelta, RevenueDelta |-> rows[i].RevenueDelta,
          Growth |-> rows[i].Growth, label |-> labels[i] ] ]

\* ---------------------------------------------------------- PageCity
\* CitySubtotalRows summing pivot[col] instead of group[col] into each subtotal
CitySubtotalRowsOverPivot(p, lat) ==
    LET gs == groupby_top(p)
    IN  [ i \in 1..Len(gs) |->
            WithBlankGrowth(GroupRows(p, gs[i]))
            \o << SummaryRow("Subtotal", gs[i], gs[i] \o <<"Total">>, p, lat) >> ]

\* subtotal_rows of the city-wise page: per feeder_wh, its rows then its subtotal
CitySubtotalRows(p, lat) ==
    LET gs == groupby_top(p)
    IN  [ i \in 1..Len(gs) |->
            LET group == GroupRows(p, gs[i])
            IN  WithBlankGrowth(group)
                \o << SummaryRow("Subtotal", gs[i], gs[i] \o <<"Total">>, group, lat) >> ]

CityGrandTotal(p, lat) == SummaryRow("GrandTotal", <<"Grand", "Total">>, <<>>, p, lat)

\* the first column after duplicate names are hidden: a cell equal to the one
\* above it is blanked, except on the Grand Total row
CityLabels(rows) ==
    [ i \in 1..Len(rows) |->
        IF i > 1 /\ rows[i].top = rows[i-1].top /\ rows[i].top # <<"Grand", "Total">>
        THEN <<>> ELSE rows[i].top ]

CityFinal(p, lat) ==
    LET rows == Concat(CitySubtotalRows(p, lat)) \o << CityGrandTotal(p, lat) >>
    IN  WithLabels(rows, CityLabels(rows))

PageCity ==
    /\ outcome = "idle"
    /\ report' = "PageCity"
    /\ IF df = EmptyBag
       THEN /\ outcome' = "nodata"            \* "No data available."
            /\ columns' = {}
            /\ final_df' = <<>>
       ELSE LET lat == latest_date(df)
                p   == pivot(df, lat)
            IN  IF df_filtered(df, lat) = {}
                THEN /\ outcome' = "nodata"   \* "No data found for ..."
                     /\ columns' = {}
                     /\ final_df' = <<>>
                ELSE /\ outcome' = "table"
                     /\ columns' = DateColumns(p)
                     /\ final_df' = CityFinal(p, lat)
    /\ UNCHANGED <<df, notSales>>

\* ---------------------------------------------------------- PageProduct
\* subtotal_rows of the product-wise page: per product, its rows then "All Cities Total"
ProductSubtotalRows(p, lat) ==
    LET gs == groupby_top(p)
    IN  [ i \in 1..Len(gs) |->
            LET group == GroupRows(p, gs[i])
            IN  WithBlankGrowth(group)
                \o << SummaryRow("Subtotal", gs[i], <<"All", "Cities", "Total">>, group, lat) >> ]

\* the product name is shown once per group: a cell equal to the one above is blanked
ProductLabels(rows) ==
    [ i \in 1..Len(rows) |->
        IF i > 1 /\ rows[i].top = rows[i-1].top THEN <<>> ELSE rows[i].top ]

ProductFinal(p, lat) ==
    LET rows == Concat(ProductSubtotalRows(p, lat))
    IN  WithLabels(rows, ProductLabels(rows))

PageProduct ==
    /\ outcome = "idle"
    /\ report' = "PageProduct"
    /\ IF df = EmptyBag
       THEN /\ outcome' = "nodata"            \* "No data available."
            /\ columns' = {}
            /\ final_df' = <<>>
       ELSE LET lat == latest_date(df)
                p   == pivot(df, lat)
            IN  IF df_filtered(df, lat) = {}
                THEN /\ outcome' = "nodata"   \* "No data found for ..."
                     /\ columns' = {}
                     /\ final_df' = <<>>
                ELSE /\ outcome' = "table"
                     /\ columns' = DateColumns(p)
                     /\ final_df' = ProductFinal(p, lat)
    /\ UNCHANGED <<df, notSales>>

\* ---------------------------------------------------------- app.py reports
\* rows[col].sum() of a delta column
SumField(rows, field) == Sum([i \in 1..Len(rows) |-> rows[i][field]])

\* the subtotal row of one group of the pivot (all three date columns exist)
AppSubtotal(g, group, lat) ==
    LET cols == { d7_date(lat), d1_date(lat), lat }
        q    == [dt \in cols |-> SumCol(group, "quantity", dt)]
        rev  == [dt \in cols |-> SumCol(group, "net_revenue", dt)]
    IN  [ kind |-> "Subtotal", top |-> g, child |-> g \o <<"Total">>,
          quantity |-> q, net_revenue |-> rev,
          UnitsDelta   |-> q[lat] - q[d7_date(lat)],
          RevenueDelta |-> rev[lat] - rev[d7_date(lat)],
          Growth       |-> GuardedGrowth(rev[lat], rev[d7_date(lat)]) ]

\* final_df before the sorting: per group (groupby order) its rows then its subtotal
AppSubtotalRows(p, lat) ==
    LET gs == groupby_top(p)
    IN  Concat([ i \in 1..Len(gs) |->
                   LET group == GroupRows(p, gs[i])
                   IN  WithBlankGrowth(group) \o << AppSubtotal(gs[i], group, lat) >> ])

\* is_subtotal: the second-level cell contains 'Total'
is_subtotal(row) == ContainsTotal(row.child)

\* source_rows = final_df[~is_subtotal]
source_rows(fd) == SelectSeq(fd, LAMBDA r : ~is_subtotal(r))

\* the orders sort_values(by=key, ascending=False) can leave the items of S in:
\* the default kind is quicksort, which keeps no order among equal keys
SortValuesDesc(S, key) ==
    { s \in [1..Cardinality(S) -> S] :
        /\ \A i, j \in DOMAIN s : i # j => s[i] # s[j]
        /\ \A i, j \in DOMAIN s : i < j => key[s[i]] >= key[s[j]] }

\* the fallback subtotal built when no subtotal row is found for a group
AppBuilt(g, rows, lat) ==
    LET cols == { d7_date(lat), d1_date(lat), lat }
        q    == [dt \in cols |-> SumCol(rows, "quantity", dt)]
        rev  == [dt \in cols |-> SumCol(rows, "net_revenue", dt)]
    IN  [ kind |-> "Subtotal", top |-> g, child |-> g \o <<"Total">>,
          quantity |-> q, net_revenue |-> rev,
          UnitsDelta   |-> SumField(rows, "UnitsDelta"),
          RevenueDelta |-> SumField(rows, "RevenueDelta"),
          Growth       |-> GuardedGrowth(rev[lat], rev[d7_date(lat)]) ]

\* the parts appended for one group: its source rows by latest quantity
\* descending, then the rows of final_df found by subtotal_mask
AppGroupParts(fd, g, lat) ==
    LET src   == GroupRows(source_rows(fd), g)
        S     == { src[i] : i \in 1..Len(src) }
        found == SelectSeq(fd, LAMBDA r : r.top = g /\ ContainsTotal(r.child))
    IN  { sku_rows \o (IF found # <<>> THEN found ELSE << AppBuilt(g, sku_rows, lat) >>) :
            sku_rows \in SortValuesDesc(S, [r \in S |-> r.quantity[lat]]) }

RECURSIVE AppOrderedParts(_, _, _)
\* the tables ordered_parts can hold for the groups gs, in that order
AppOrderedParts(fd, gs, lat) ==
    IF gs = <<>> THEN { <<>> }
    ELSE { part \o rest : part \in AppGroupParts(fd, Head(gs), lat),
                          rest \in AppOrderedParts(fd, Tail(gs), lat) }

\* the grand total row, computed from source_rows
AppGrandTotal(src, lat) ==
    LET cols == { d7_date(lat), d1_date(lat), lat }
        q    == [dt \in cols |-> SumCol(src, "quantity", dt)]
        rev  == [dt \in cols |-> SumCol(src, "net_revenue", dt)]
        prev == rev[d7_date(lat)]
    IN  [ kind |-> "GrandTotal", top |-> <<"Grand", "Total">>, child |-> <<>>,
          quantity |-> q, net_revenue |-> rev,
          UnitsDelta   |-> SumField(src, "UnitsDelta"),
          RevenueDelta |-> SumField(src, "RevenueDelta"),
          Growth       |-> Pct(RoundDiv((rev[lat] - prev) * 10000,
                                        IF prev # 0 THEN prev ELSE 1)) ]

\* the tables the report can end with; {} when pd.concat(ordered_parts) raises
AppFinal(p, lat) ==
    LET fd   == AppSubtotalRows(p, lat)
        src  == source_rows(fd)
        tops == { src[i].top : i \in 1..Len(src) }
        sku_totals == SortValuesDesc(tops, [g \in tops |-> SumCol(GroupRows(src, g), "quantity", lat)])
    IN  IF src = <<>> THEN {}
        ELSE { LET rows == ordered \o << AppGrandTotal(src, lat) >>
               IN  WithLabels(rows, [i \in 1..Len(rows) |-> rows[i].top]) :
                 ordered \in UNION { AppOrderedParts(fd, gs, lat) : gs \in sku_totals } }

\* one run of an app.py report; the two reports differ in the names of the
\* two key columns only
AppReport(name) ==
    /\ outcome = "idle"
    /\ report' = name
    /\ IF df = EmptyBag
       THEN /\ outcome' = "error"             \* NaT.strftime raises
            /\ columns' = {}
            /\ final_df' = <<>>
       ELSE LET lat == latest_date(df)
                p   == pivot(df, lat)
            IN  IF DateColumns(p) # { d7_date(lat), d1_date(lat), lat }
                   \/ AppFinal(p, lat) = {}
                THEN /\ outcome' = "error"    \* KeyError / "No objects to concatenate"
                     /\ columns' = {}
                     /\ final_df' = <<>>
                ELSE /\ outcome' = "table"
                     /\ columns' = DateColumns(p)
                     /\ \E t \in AppFinal(p, lat) : final_df' = t
    /\ UNCHANGED <<df, notSales>>

AppSkuReport  == AppReport("AppSkuReport")
AppCityReport == AppReport("AppCityReport")

\* ---------------------------------------------------------- row source
\* one more row in the result of get_blinkit_data
Fetch(rec) ==
    /\ outcome = "idle"
    /\ BagCardinality(df) < MaxRecords
    /\ df' = df (+) SetToBag({rec})
    /\ UNCHANGED <<report, outcome, columns, final_df, notSales>>

Init == Idle

Next ==
    \/ \E rec \in RecordPool : Fetch(rec)
    \/ PageCity
    \/ PageProduct
    \/ AppSkuReport
    \/ AppCityReport

Spec == Init /\ [][Next]_vars

\* ------------------------------------------------------------------ claims
Built == outcome = "table"
Lat   == Max(columns)                 \* the latest date always has a column
D7    == d7_date(Lat)
D1    == d1_date(Lat)
Periods   == { D7, D1, Lat }
Idx(kind) == { i \in 1..Len(final_df) : final_df[i].kind = kind }
Leaves    == Idx("Leaf")
Summaries == Idx("Subtotal") \cup Idx("GrandTotal")
LeavesOf(g) == { i \in Leaves : final_df[i].top = g }
MetricNames == { "quantity", "net_revenue" }
\* the value a row shows for a metric on a date: 0 where it has no such cell
Val(row, m, dt) == IF dt \in DOMAIN row[m] THEN row[m][dt] ELSE 0
TableSum(S, m, dt) == Sum([i \in S |-> Val(final_df[i], m, dt)])
\* the sum of a metric over the fetched rows of one group and one date
FetchedSum(g, m, dt) ==
    Sum([r \in { x \in BagToSet(df) : x.date = dt /\ x.top = g } |-> CopiesIn(r, df) * r[m]])
Row(g, c, dt, q, rev) ==
    [top |-> g, child |-> c, date |-> dt, quantity |-> q, net_revenue |-> rev]

\* C1: in every built table, for every metric and each of the three periods,
\* the Grand Total row's value is the sum of that value over all Leaf rows.
C1_GrandTotalSumsAllLeaves ==
    Built =>
        \A i \in Idx("GrandTotal") : \A m \in MetricNames : \A dt \in Periods :
            Val(final_df[i], m, dt) = TableSum(Leaves, m, dt)

\* C2: in every built table, every Subtotal row's value, for every metric and
\* each of the three periods, is the sum of that value over exactly the Leaf
\* rows of its group, which is the sum over the fetched rows of that group
\* and date.
C2_SubtotalSumsItsLeaves ==
    Built =>
        \A i \in Idx("Subtotal") : \A m \in MetricNames : \A dt \in Periods :
            /\ Val(final_df[i], m, dt) = TableSum(LeavesOf(final_df[i].top), m, dt)
            /\ Val(final_df[i], m, dt) = FetchedSum(final_df[i].top, m, dt)

\* a table with two groups, one of them with two Leaf rows, and revenue to sum
C2_Witness ==
    /\ Built
    /\ \E i \in Idx("Subtotal") :
          /\ Cardinality(LeavesOf(final_df[i].top)) = 2
          /\ \A j \in LeavesOf(final_df[i].top) : final_df[j].net_revenue[Lat] > 0
          /\ \E j \in Leaves : final_df[j].top # final_df[i].top /\ final_df[j].net_revenue[Lat] > 0

\* the D-7 revenue of a row
Baseline(row) == Val(row, "net_revenue", D7)

\* C3: every Subtotal row and the Grand Total row whose D-7 revenue sum is 0
\* has Growth % 0, whatever its current revenue is.
C3_ZeroBaselineZeroGrowth ==
    Built =>
        \A i \in Summaries :
            Baseline(final_df[i]) = 0 => final_df[i].Growth = Pct(0)

\* C4: after a report ran on fetched rows, every key with a row on one of the
\* three reference dates has a Leaf row with a value for every metric on all
\* three dates.
C4_EveryKeyHasAllPeriods ==
    (report # "none" /\ df # EmptyBag) =>
        LET lat == latest_date(df)
        IN  /\ Built
            /\ \A r \in df_filtered(df, lat) :
                  \E i \in Leaves :
                      /\ final_df[i].top = r.top
                      /\ final_df[i].child = r.child
                      /\ \A m \in MetricNames :
                            DOMAIN final_df[i][m] = { d7_date(lat), d1_date(lat), lat }

\* C5: every built table has exactly one Subtotal row per top-level value of
\* its Leaf rows, no other Subtotal row, and exactly one Grand Total row.
C5_OneSubtotalPerGroupOneGrandTotal ==
    Built =>
        /\ \A j \in Leaves :
              Cardinality({ i \in Idx("Subtotal") : final_df[i].top = final_df[j].top }) = 1
        /\ \A i \in Idx("Subtotal") : LeavesOf(final_df[i].top) # {}
        /\ Cardinality(Idx("GrandTotal")) = 1

\* C6: every built table is a sequence of blocks, each the Leaf rows of one
\* group followed immediately by that group's Subtotal, and ends with the
\* Grand Total as its last row.
C6_BlocksThenGrandTotal ==
    Built =>
        /\ final_df[Len(final_df)].kind = "GrandTotal"
        /\ \A i \in Leaves : \E j \in Idx("Subtotal") :
              /\ i < j
              /\ final_df[j].top = final_df[i].top
              /\ \A k \in i..(j - 1) : k \in LeavesOf(final_df[i].top)

\* C7: the groups of a built table come in descending order of their
\* Subtotal's latest-date quantity, equal quantities in lexical order of the
\* group key.
C7_GroupsRankedDescending ==
    Built =>
        \A i, j \in Idx("Subtotal") :
            i < j =>
                \/ final_df[i].quantity[Lat] > final_df[j].quantity[Lat]
                \/ /\ final_df[i].quantity[Lat] = final_df[j].quantity[Lat]
                   /\ LexLess(final_df[i].top, final_df[j].top)

\* C8: within each group of a built table the Leaf rows come in descending
\* order of their latest-date quantity, equal quantities in lexical order of
\* the child key.
C8_LeavesRankedDescending ==
    Built =>
        \A i, j \in Leaves :
            (i < j /\ final_df[i].top = final_df[j].top) =>
                \/ final_df[i].quantity[Lat] > final_df[j].quantity[Lat]
                \/ /\ final_df[i].quantity[Lat] = final_df[j].quantity[Lat]
                   /\ LexLess(final_df[i].child, final_df[j].child)

\* the records A@D-7=100, A@Current=150, B@Current=50
ExampleDf ==
    SetToBag({ Row(<<"G1">>, <<"A">>, 1, 2, 100), Row(<<"G1">>, <<"A">>, 8, 2, 150),
               Row(<<"G1">>, <<"B">>, 8, 1, 50) })

LeafOfChild(c) == final_df[CHOOSE i \in Leaves : final_df[i].child = c]
TheSubtotal    == final_df[CHOOSE i \in Idx("Subtotal") : TRUE]
TheGrandTotal  == final_df[CHOOSE i \in Idx("GrandTotal") : TRUE]
\* current 200, D-7 100, delta 100, growth 100.00
IsExampleTotal(row) ==
    /\ row.net_revenue = (1 :> 100 @@ 8 :> 200)
    /\ row.RevenueDelta = 100
    /\ row.Growth = Pct(10000)

C10_SummaryDeltasFromOwnSums ==
    Built =>
        \A i \in Summaries :
            LET row == final_df[i]
            IN  /\ row.UnitsDelta = Val(row, "quantity", Lat) - Val(row, "quantity", D7)
                /\ row.RevenueDelta = Val(row, "net_revenue", Lat) - Baseline(row)
                /\ Baseline(row) # 0 =>
                      row.Growth =
                          Pct(RoundDiv((Val(row, "net_revenue", Lat) - Baseline(row)) * 10000,
                                       Baseline(row)))

\* ------------------------------------------------------------ ad reports
MaxAdRows    == 2
MaxSalesRows == 2

\* the values the ad rows and the sales rows are drawn from
AdNames     == { "Razor", "Cup" }      \* product_name of femisafe_blinkit_addata
SalesNames  == { "razor", "Cup" }      \* product of femisafe_blinkit_salesdata
TargetDates == { 1, 2 }                \* dates the user can select
AdPool ==
    { [product_name |-> n, date |-> d, estimated_budget_consumed |-> s, direct_sales |-> 2 * s] :
        n \in AdNames, d \in {1, 2}, s \in {0, 100} }
SalesPool ==
    { r \in [product : SalesNames, order_date : {0, 1, 2}, gross_sales : {-50, 0, 100}] :
        r.order_date = 0 => r.gross_sales = 100 }

\* str.strip().lower() of a name
join_key(name) ==
    CASE name = "Razor" -> "razor"
      [] name = "razor" -> "razor"
      [] name = "Cup"   -> "cup"

\* a float cell: a finite number, or NaN, inf, -inf
Num(n) == <<n>>
NaN    == <<0, 0>>
PosInf == <<1, 0>>
NegInf == <<-1, 0>>
IsFinite(c) == Len(c) = 1

\* round(n / d) for d # 0, ties to even
RoundQuot(n, d) == IF d < 0 THEN RoundDiv(-n, -d) ELSE RoundDiv(n, d)

\* np.where(prev > 0, ((curr - prev) / prev) * 100, 0), in hundredths of a percent
calc_growth(curr, prev) ==
    IF prev > 0 THEN Num(RoundQuot((curr - prev) * 10000, prev)) ELSE Num(0)

\* np.where(spend > 0, sales / spend, 0), in hundredths
guarded_roas(sales, spend) ==
    IF spend > 0 THEN Num(RoundQuot(sales * 100, spend)) ELSE Num(0)

\* the label that fillna(0) leaves where a source has no row
NoLabel == "0"

\* df_ad[df_ad['date_col'].isin(target_dates_str)]
ad_filt(A, t) == { r \in BagToSet(A) : r.date \in {t, t - 1} }
\* df_sales[df_sales['date_col'].isin(target_dates_str)]
sales_filt(S, t) == { r \in BagToSet(S) : r.order_date \in {t, t - 1} }

\* the groups of ad_filt.groupby(['join_key', 'date_col'])
ad_grp(A, t) == { <<join_key(r.product_name), r.date>> : r \in ad_filt(A, t) }
\* the groups of sales_filt.groupby(['join_key', 'date_col'])
sales_grp(S, t) == { <<join_key(r.product), r.order_date>> : r \in sales_filt(S, t) }

\* the sum of one column over one ad group
AdGroupSum(A, t, k, field) ==
    Sum([r \in { x \in ad_filt(A, t) : <<join_key(x.product_name), x.date>> = k } |->
            CopiesIn(r, A) * r[field]])
\* the sum of gross_sales over one sales group
SalesGroupSum(S, t, k) ==
    Sum([r \in { x \in sales_filt(S, t) : <<join_key(x.product), x.order_date>> = k } |->
            CopiesIn(r, S) * r.gross_sales])
\* 'product_name': 'first' of one ad group (the pool has one name per join key)
AdGroupFirst(A, t, k) ==
    CHOOSE n \in { x.product_name : x \in { y \in ad_filt(A, t) :
                        <<join_key(y.product_name), y.date>> = k } } : TRUE
\* 'product': 'first' of one sales group
SalesGroupFirst(S, t, k) ==
    CHOOSE n \in { x.product : x \in { y \in sales_filt(S, t) :
                        <<join_key(y.product), y.order_date>> = k } } : TRUE

\* np.where(merged['product_name'] != 0, merged['product_name'], merged['product'])
display_name(product_name, product) ==
    IF product_name # NoLabel THEN product_name ELSE product

\* pd.merge(ad_grp, sales_grp, on=['join_key', 'date_col'], how='outer').fillna(0)
\* with its display_name column
merged(A, S, t) ==
    { LET inAd    == k \in ad_grp(A, t)
          inSales == k \in sales_grp(S, t)
          pn      == IF inAd THEN AdGroupFirst(A, t, k) ELSE NoLabel
          p       == IF inSales THEN SalesGroupFirst(S, t, k) ELSE NoLabel
      IN  [ join_key |-> k[1], date_col |-> k[2],
            estimated_budget_consumed |->
                IF inAd THEN AdGroupSum(A, t, k, "estimated_budget_consumed") ELSE 0,
            direct_sales |-> IF inAd THEN AdGroupSum(A, t, k, "direct_sales") ELSE 0,
            gross_sales  |-> IF inSales THEN SalesGroupSum(S, t, k) ELSE 0,
            product_name |-> pn, product |-> p,
            display_name |-> display_name(pn, p) ] :
        k \in ad_grp(A, t) \cup sales_grp(S, t) }

\* get_col(metric, date_key) for one row of the pivot: the summed cell, 0 where
\* the pivot has no such cell
get_col(M, n, metric, d) ==
    Sum([m \in { x \in M : x.display_name = n /\ x.date_col = d } |-> m[metric]])

\* one product row of res
AdProductRow(M, n, t) ==
    LET d1_spend         == get_col(M, n, "estimated_budget_consumed", t - 1)
        d1_ad_sales      == get_col(M, n, "direct_sales", t - 1)
        d1_gross_sales   == get_col(M, n, "gross_sales", t - 1)
        curr_spend       == get_col(M, n, "estimated_budget_consumed", t)
        curr_ad_sales    == get_col(M, n, "direct_sales", t)
        curr_gross_sales == get_col(M, n, "gross_sales", t)
    IN  [ kind |-> "Product", name |-> n,
          D1_Ad_Spend |-> Num(d1_spend), D1_Ad_Sales |-> Num(d1_ad_sales),
          D1_Gross_Sales |-> Num(d1_gross_sales),
          D1_Direct_ROAS |-> guarded_roas(d1_ad_sales, d1_spend),
          D1_ROAS |-> guarded_roas(d1_gross_sales, d1_spend),
          Curr_Ad_Spend |-> Num(curr_spend), Curr_Ad_Sales |-> Num(curr_ad_sales),
          Curr_Gross_Sales |-> Num(curr_gross_sales),
          Curr_Direct_ROAS |-> guarded_roas(curr_ad_sales, curr_spend),
          Curr_ROAS |-> guarded_roas(curr_gross_sales, curr_spend),
          Growth_Gross_Sales |-> calc_growth(curr_gross_sales, d1_gross_sales),
          Growth_Ad_Spend |-> calc_growth(curr_spend, d1_spend) ]

\* res[col].sum() of a column without NaN
AdColSum(rows, col) == Sum([i \in 1..Len(rows) |-> rows[i][col][1]])

\* the 'Grand Total' row of the ad page
AdTotalRow(rows) ==
    LET d1_spend         == AdColSum(rows, "D1_Ad_Spend")
        d1_ad_sales      == AdColSum(rows, "D1_Ad_Sales")
        d1_gross_sales   == AdColSum(rows, "D1_Gross_Sales")
        curr_spend       == AdColSum(rows, "Curr_Ad_Spend")
        curr_ad_sales    == AdColSum(rows, "Curr_Ad_Sales")
        curr_gross_sales == AdColSum(rows, "Curr_Gross_Sales")
    IN  [ kind |-> "Total", name |-> "Grand Total",
          D1_Ad_Spend |-> Num(d1_spend), D1_Ad_Sales |-> Num(d1_ad_sales),
          D1_Gross_Sales |-> Num(d1_gross_sales),
          D1_Direct_ROAS |-> guarded_roas(d1_ad_sales, d1_spend),
          D1_ROAS |-> guarded_roas(d1_gross_sales, d1_spend),
          Curr_Ad_Spend |-> Num(curr_spend), Curr_Ad_Sales |-> Num(curr_ad_sales),
          Curr_Gross_Sales |-> Num(curr_gross_sales),
          Curr_Direct_ROAS |-> guarded_roas(curr_ad_sales, curr_spend),
          Curr_ROAS |-> guarded_roas(curr_gross_sales, curr_spend),
          Growth_Gross_Sales |-> calc_growth(curr_gross_sales, d1_gross_sales),
          Growth_Ad_Spend |-> calc_growth(curr_spend, d1_spend) ]

\* the tables process_data can return for a non-empty merge: the product rows
\* by Curr_Gross_Sales descending, then the Grand Total
process_data(A, S, t) ==
    LET M     == merged(A, S, t)
        names == { m.display_name : m \in M }
        row   == [n \in names |-> AdProductRow(M, n, t)]
        order == SortValuesDesc(names, [n \in names |-> row[n].Curr_Gross_Sales[1]])
    IN  { LET res == [i \in 1..Len(o) |-> row[o[i]]]
          IN  res \o << AdTotalRow(res) >> : o \in order }

\* the df_ad frame after process_data cleaned it in place
CleanedAdFrame(f) ==
    [ c \in DOMAIN f \cup {"join_key", "date_col"} |->
        IF c = "date" THEN "datetime64" ELSE "object" ]

\* one run of the Blinkit ad page on the selected date t
BlinkitAdPage(t) ==
    /\ ad_outcome = "idle"
    /\ ad_report' = "BlinkitAdPage"
    /\ target_date' = t
    /\ IF df_ad = EmptyBag
       THEN /\ ad_frame' = ad_frame
            /\ ad_outcome' = "nodata"         \* "Ad Data is empty from DB"
            /\ ad_final' = <<>>
       ELSE IF df_sales = EmptyBag
       THEN /\ ad_frame' = [ad_frame EXCEPT !["date"] = "datetime64"]   \* the debug box
            /\ ad_outcome' = "nodata"         \* "Sales Data is empty from DB"
            /\ ad_final' = <<>>
       ELSE /\ ad_frame' = CleanedAdFrame(ad_frame)
            /\ IF ad_filt(df_ad, t) = {} /\ sales_filt(df_sales, t) = {}
               THEN /\ ad_outcome' = "nodata" \* "No data match found"
                    /\ ad_final' = <<>>
               ELSE IF { m.date_col : m \in merged(df_ad, df_sales, t) } # {t, t - 1}
               THEN /\ ad_outcome' = "error"  \* get_col gives the int 0 twice: 0 / 0 raises
                    /\ ad_final' = <<>>
               ELSE /\ ad_outcome' = "table"
                    /\ \E tbl \in process_data(df_ad, df_sales, t) : ad_final' = tbl
    /\ UNCHANGED <<df_ad, df_sales, notAd>>

\* --- app.py "Ad Report"
\* a - b and a / b * scale on float cells
FloatSub(a, b) == IF IsFinite(a) /\ IsFinite(b) THEN Num(a[1] - b[1]) ELSE NaN
FloatDiv(a, b, scale) ==
    IF ~(IsFinite(a) /\ IsFinite(b)) THEN NaN
    ELSE IF b[1] # 0 THEN Num(RoundQuot(a[1] * scale, b[1]))
    ELSE IF a[1] > 0 THEN PosInf
    ELSE IF a[1] < 0 THEN NegInf
    ELSE NaN

\* one cell of the pivot of the ad summary: NaN where the product has no ad row
\* on the date
AppAdCell(A, n, d, field) ==
    LET G == { r \in BagToSet(A) : r.product_name = n /\ r.date = d }
    IN  IF G = {} THEN NaN ELSE Num(Sum([r \in G |-> CopiesIn(r, A) * r[field]]))
\* the gross_sales cell: the left merge leaves NaN where no sales row has the
\* same product text and date
AppGrossCell(A, S, n, d) ==
    LET G == { r \in BagToSet(S) : r.product = n /\ r.order_date = d }
    IN  IF AppAdCell(A, n, d, "direct_sales") = NaN \/ G = {} THEN NaN
        ELSE Num(Sum([r \in G |-> CopiesIn(r, S) * r.gross_sales]))

\* (latest - prev) / prev * 100, in hundredths of a percent
unguarded_growth(latest, prev) == FloatDiv(FloatSub(latest, prev), prev, 10000)

\* one product row of the app.py pivot
AppAdRow(A, S, n, latest) ==
    LET prev        == latest - 1
        spend(d)    == AppAdCell(A, n, d, "estimated_budget_consumed")
        ad_sales(d) == AppAdCell(A, n, d, "direct_sales")
        gross(d)    == AppGrossCell(A, S, n, d)
    IN  [ kind |-> "Product", name |-> n,
          D1_Ad_Spend |-> spend(prev), D1_Ad_Sales |-> ad_sales(prev),
          D1_Gross_Sales |-> gross(prev),
          D1_Direct_ROAS |-> FloatDiv(ad_sales(prev), spend(prev), 100),
          D1_ROAS |-> FloatDiv(gross(prev), spend(prev), 100),
          Curr_Ad_Spend |-> spend(latest), Curr_Ad_Sales |-> ad_sales(latest),
          Curr_Gross_Sales |-> gross(latest),
          Curr_Direct_ROAS |-> FloatDiv(ad_sales(latest), spend(latest), 100),
          Curr_ROAS |-> FloatDiv(gross(latest), spend(latest), 100),
          Growth_Gross_Sales |-> unguarded_growth(gross(latest), gross(prev)),
          Growth_Ad_Spend |-> unguarded_growth(spend(latest), spend(prev)) ]

\* pivot[col].sum(): NaN cells are skipped
AppColSum(rows, col) ==
    Sum([i \in 1..Len(rows) |-> IF IsFinite(rows[i][col]) THEN rows[i][col][1] ELSE 0])

\* x / y * scale if y != 0 else 0
AppGuarded(x, y, scale) == IF y # 0 THEN Num(RoundQuot(x * scale, y)) ELSE Num(0)

\* the 'Total' row of the app.py ad report
AppAdTotalRow(rows) ==
    LET total_prev_spend   == AppColSum(rows, "D1_Ad_Spend")
        total_latest_spend == AppColSum(rows, "Curr_Ad_Spend")
        total_prev_sales   == AppColSum(rows, "D1_Ad_Sales")
        total_latest_sales == AppColSum(rows, "Curr_Ad_Sales")
        total_prev_gross   == AppColSum(rows, "D1_Gross_Sales")
        total_latest_gross == AppColSum(rows, "Curr_Gross_Sales")
    IN  [ kind |-> "Total", name |-> "Total",
          D1_Ad_Spend |-> Num(total_prev_spend), D1_Ad_Sales |-> Num(total_prev_sales),
          D1_Gross_Sales |-> Num(total_prev_gross),
          D1_Direct_ROAS |-> AppGuarded(total_prev_sales, total_prev_spend, 100),
          D1_ROAS |-> AppGuarded(total_prev_gross, total_prev_spend, 100),
          Curr_Ad_Spend |-> Num(total_latest_spend), Curr_Ad_Sales |-> Num(total_latest_sales),
          Curr_Gross_Sales |-> Num(total_latest_gross),
          Curr_Direct_ROAS |-> AppGuarded(total_latest_sales, total_latest_spend, 100),
          Curr_ROAS |-> AppGuarded(total_latest_gross, total_latest_spend, 100),
          Growth_Gross_Sales |->
              AppGuarded(total_latest_gross - total_prev_gross, total_prev_gross, 10000),
          Growth_Ad_Spend |->
              AppGuarded(total_latest_spend - total_prev_spend, total_prev_spend, 10000) ]

\* the sort key of a cell: sort_values puts NaN last
NaLast == -1000000
SortKey(c) == IF IsFinite(c) THEN c[1] ELSE NaLast

\* the tables the app.py ad report can show
AppAdFinal(A, S, latest) ==
    LET names == { r.product_name : r \in ad_filt(A, latest) }
        row   == [n \in names |-> AppAdRow(A, S, n, latest)]
        order == SortValuesDesc(names, [n \in names |-> SortKey(row[n].Curr_Gross_Sales)])
    IN  { LET res == [i \in 1..Len(o) |-> row[o[i]]]
          IN  res \o << AppAdTotalRow(res) >> : o \in order }

\* one run of the app.py "Ad Report"
AppAdReport ==
    /\ ad_outcome = "idle"
    /\ ad_report' = "AppAdReport"
    /\ IF df_ad = EmptyBag
       THEN /\ ad_frame' = [ad_frame EXCEPT !["date"] = "datetime64"]
            /\ target_date' = 0
            /\ ad_outcome' = "error"          \* NaT.strftime raises
            /\ ad_final' = <<>>
       ELSE LET latest == Max({ r.date : r \in BagToSet(df_ad) })
            IN  /\ ad_frame' = [ad_frame EXCEPT !["date"] = "datetime64"]
                /\ target_date' = latest
                /\ IF { r.date : r \in ad_filt(df_ad, latest) } # {latest, latest - 1}
                   THEN /\ ad_outcome' = "error"   \* KeyError: no column of prev_date
                        /\ ad_final' = <<>>
                   ELSE /\ ad_outcome' = "table"
                        /\ \E tbl \in AppAdFinal(df_ad, df_sales, latest) : ad_final' = tbl
    /\ UNCHANGED <<df_ad, df_sales, notAd>>

\* one more row in femisafe_blinkit_addata
FetchAd(rec) ==
    /\ ad_outcome = "idle"
    /\ BagCardinality(df_ad) < MaxAdRows
    /\ df_ad' = df_ad (+) SetToBag({rec})
    /\ UNCHANGED <<df_sales, ad_frame, target_date, ad_report, ad_outcome, ad_final, notAd>>

\* one more row in femisafe_blinkit_salesdata
FetchSales(rec) ==
    /\ ad_outcome = "idle"
    /\ BagCardinality(df_sales) < MaxSalesRows
    /\ df_sales' = df_sales (+) SetToBag({rec})
    /\ UNCHANGED <<df_ad, ad_frame, target_date, ad_report, ad_outcome, ad_final, notAd>>

InitAd == Idle

NextAd ==
    \/ \E rec \in AdPool : FetchAd(rec)
    \/ \E rec \in SalesPool : FetchSales(rec)
    \/ \E t \in TargetDates : BlinkitAdPage(t)
    \/ AppAdReport

SpecAd == InitAd /\ [][NextAd]_vars

\* ------------------------------------------------------ claims, ad reports
AdBuilt   == ad_outcome = "table"
AdRows    == 1..Len(ad_final)
\* (curr - prev) / prev * 100 of two finite cells, in hundredths of a percent
PlainGrowth(curr, prev) == Num(RoundQuot((curr[1] - prev[1]) * 10000, prev[1]))

\* C11: on every row of a built ad table, a previous-day value that is not 0,
\* negative ones included, gives growth (current - previous) / previous * 100,
\* for gross sales and for ad spend alike; only a previous-day value of
\* exactly 0 gives growth 0.
C11_GrowthForEveryNonZeroBaseline ==
    AdBuilt =>
        \A i \in AdRows :
            LET r == ad_final[i]
            IN  /\ (IsFinite(r.D1_Gross_Sales) /\ IsFinite(r.Curr_Gross_Sales)
                        /\ r.D1_Gross_Sales # Num(0)) =>
                      r.Growth_Gross_Sales = PlainGrowth(r.Curr_Gross_Sales, r.D1_Gross_Sales)
                /\ (IsFinite(r.D1_Ad_Spend) /\ IsFinite(r.Curr_Ad_Spend)
                        /\ r.D1_Ad_Spend # Num(0)) =>
                      r.Growth_Ad_Spend = PlainGrowth(r.Curr_Ad_Spend, r.D1_Ad_Spend)

\* C12: on every product row and on the total row of a built ad table the two
\* growth cells are finite numbers, gross-sales growth is 0 when the
\* previous-day gross sales is 0, and ad-spend growth is 0 when the
\* previous-day spend is 0.
C12_BothGrowthsZeroGuarded ==
    AdBuilt =>
        \A i \in AdRows :
            LET r == ad_final[i]
            IN  /\ IsFinite(r.Growth_Gross_Sales)
                /\ IsFinite(r.Growth_Ad_Spend)
                /\ r.D1_Gross_Sales = Num(0) => r.Growth_Gross_Sales = Num(0)
                /\ r.D1_Ad_Spend = Num(0) => r.Growth_Ad_Spend = Num(0)

\* ------------------------------------------- claims, period matching
\* the fetched rows whose date is one of the three reference dates
Matched(d) ==
    LET lat  == Max({ r.date : r \in BagToSet(d) })
        kept == { r \in BagToSet(d) : r.date \in { lat, lat - 1, lat - 7 } }
    IN  [ r \in kept |-> CopiesIn(r, d) ]

\* the tables a report can render from the rows d: none when it raises
ReportTables(name, d) ==
    LET lat == latest_date(d)
        p   == pivot(d, lat)
    IN  CASE name = "PageCity"    -> { CityFinal(p, lat) }
          [] name = "PageProduct" -> { ProductFinal(p, lat) }
          [] OTHER -> IF DateColumns(p) # { d7_date(lat), d1_date(lat), lat }
                      THEN {} ELSE AppFinal(p, lat)

\* C13: a report built from fetched rows shows exactly what it shows when the
\* rows whose date is none of Current, D-1 and D-7 are taken away before the
\* report runs: the same date columns and the same rows and totals, and it
\* raises only if it raises without them.
C13_UnmatchedDatesContributeNothing ==
    (report # "none" /\ df # EmptyBag) =>
        LET T == ReportTables(report, Matched(df))
        IN  IF T = {} THEN outcome = "error"
            ELSE /\ Built
                 /\ final_df \in T
                 /\ columns = { r.date : r \in DOMAIN Matched(df) }

\* a table was built while a fetched row with sales lies on none of the three
\* reference dates
C13_Witness ==
    /\ Built
    /\ \E r \in BagToSet(df) : r.date \notin Periods /\ r.net_revenue > 0

\* ------------------------------------------------- overall sales overview
MaxOvRows == 3

\* month number -> the text of the 'month' column
month_map == [ m \in 1..12 |->
    << "January", "February", "March", "April", "May", "June", "July",
       "August", "September", "October", "November", "December" >>[m] ]

\* rows of femisafe_sales: order_date as <<year, month>>, the month text of
\* that date, revenue and units
OvDates == { <<1, 6>>, <<2, 3>>, <<2, 4>>, <<2, 5>> }
OvPool ==
    { [order_date |-> d, month |-> month_map[d[2]], revenue |-> v, units |-> 1] :
        d \in OvDates, v \in {10, 20} }

DateLeq(a, b) == a[1] < b[1] \/ (a[1] = b[1] /\ a[2] <= b[2])
\* df['order_date'].max()
ov_latest_date(d) ==
    CHOOSE x \in { r.order_date : r \in BagToSet(d) } :
        \A r \in BagToSet(d) : DateLeq(r.order_date, x)

\* the rows of df_chart: months April..latest, or April..December and
\* January..latest when the latest month is before April
df_chart(d) ==
    LET latest_month_num == ov_latest_date(d)[2]
    IN  { r \in BagToSet(d) :
            IF latest_month_num >= 4
            THEN r.order_date[2] >= 4 /\ r.order_date[2] <= latest_month_num
            ELSE r.order_date[2] >= 4 \/ r.order_date[2] <= latest_month_num }

\* the months of the chart, in chart order
month_order(d) ==
    LET latest_month_num == ov_latest_date(d)[2]
        nums == IF latest_month_num >= 4
                THEN [i \in 1..(latest_month_num - 3) |-> i + 3]
                ELSE [i \in 1..(9 + latest_month_num) |-> IF i <= 9 THEN i + 3 ELSE i - 9]
    IN  [i \in DOMAIN nums |-> month_map[nums[i]]]

\* df_chart.groupby('month', observed=True): one group per month text that a
\* row of df_chart carries
observed_months(d) == { r.month : r \in df_chart(d) }
\* df_chart.groupby('month', observed=False): one group per category of the
\* 'month' column, which the loader built from every row of df
all_categories(d) == { r.month : r \in BagToSet(d) }

\* .agg({'revenue': 'sum', 'units': 'sum'}) of one group
MonthBucket(d, m, label) ==
    LET G == { r \in df_chart(d) : r.month = m }
    IN  [ month   |-> label,
          revenue |-> Sum([r \in G |-> CopiesIn(r, d) * r.revenue]),
          units   |-> Sum([r \in G |-> CopiesIn(r, d) * r.units]) ]

\* the group keys that are no month of the chart: pd.Categorical(...,
\* categories=month_order) turns them into NaN and sort_values puts them last
NoMonth == "NaN"
OffChart(d) ==
    { m \in all_categories(d) : \A i \in DOMAIN month_order(d) : month_order(d)[i] # m }

RECURSIVE SetToSeq(_)
\* the elements of a set in some order
SetToSeq(S) ==
    IF S = {} THEN <<>>
    ELSE LET x == CHOOSE y \in S : TRUE IN <<x>> \o SetToSeq(S \ {x})

\* df_monthly after the sort: the buckets of the chart months in chart order,
\* then the buckets whose month became NaN
MonthlyRows(d) ==
    LET on == SelectSeq(month_order(d), LAMBDA m : m \in all_categories(d))
    IN  [i \in DOMAIN on |-> MonthBucket(d, on[i], on[i])]
        \o [i \in 1..Cardinality(OffChart(d)) |->
                MonthBucket(d, SetToSeq(OffChart(d))[i], NoMonth)]

\* one run of the overall sales overview page, up to its monthly chart
OverallSalesOverview ==
    /\ ov_outcome = "idle"
    /\ IF ov_df = EmptyBag
       THEN /\ ov_outcome' = "nodata"         \* "No data available in 'femisafe_sales'."
            /\ df_monthly' = <<>>
       ELSE /\ ov_outcome' = "chart"
            /\ df_monthly' = MonthlyRows(ov_df)
    /\ UNCHANGED <<ov_df, notOv>>

\* one more row in the result of get_overall_sales_data
FetchOv(rec) ==
    /\ ov_outcome = "idle"
    /\ BagCardinality(ov_df) < MaxOvRows
    /\ ov_df' = ov_df (+) SetToBag({rec})
    /\ UNCHANGED <<ov_outcome, df_monthly, notOv>>

NextOv ==
    \/ \E rec \in OvPool : FetchOv(rec)
    \/ OverallSalesOverview

SpecOv == Idle /\ [][NextOv]_vars

\* C14: every bucket of the aggregated monthly frame has at least one row of
\* the aggregated rows behind it: no bucket exists for a month value that no
\* aggregated row carries.
C14_BucketsOnlyForMatchedRecords ==
    ov_outcome = "chart" =>
        \A i \in 1..Len(df_monthly) :
            \E r \in df_chart(ov_df) : r.month = df_monthly[i].month

\* ------------------------------------------------------- metric coercion
MaxLen == 5
MaxDigits == 6

\* the pieces a raw metric text is made of
Pieces == { "₹", ",", "%", "N/A", "1", "234", ".50" }
DigitPieces == { "1", "234" }

\* str.replace / REGEXP_REPLACE: the text without the pieces of a class
strip_pieces(value, class) == SelectSeq(value, LAMBDA p : p \notin class)

RECURSIVE digits_value(_)
\* the integer that a run of digit pieces spells
digits_value(value) ==
    IF value = <<>> THEN 0
    ELSE LET last == value[Len(value)]
             rest == digits_value(SubSeq(value, 1, Len(value) - 1))
         IN  IF last = "1" THEN rest * 10 + 1 ELSE rest * 1000 + 234

RECURSIVE digit_count(_)
\* how many digits a text holds before its fraction
digit_count(value) ==
    IF value = <<>> THEN 0
    ELSE digit_count(Tail(value))
         + (IF Head(value) = "1" THEN 1 ELSE IF Head(value) = "234" THEN 3 ELSE 0)

\* whether a text is a decimal number: digits, then at most one fraction
is_decimal(value) ==
    /\ value # <<>>
    /\ \A i \in 1..Len(value) :
          \/ value[i] \in DigitPieces
          \/ value[i] = ".50" /\ i = Len(value)

\* the value of a decimal text, in hundredths
decimal_value(value) ==
    IF value[Len(value)] = ".50"
    THEN digits_value(SubSeq(value, 1, Len(value) - 1)) * 100 + 50
    ELSE digits_value(value) * 100

\* pd.to_numeric(col.astype(str).str.replace(r'[₹,]', '', regex=True),
\*               errors='coerce').fillna(0)
pandas_coerce(value) ==
    LET text == strip_pieces(value, { "₹", "," })
    IN  IF is_decimal(text) THEN decimal_value(text) ELSE 0

\* REGEXP_REPLACE(CAST(col AS TEXT), '[^0-9.]', '', 'g'): what is left to CAST
sql_digits(value) == strip_pieces(value, { "₹", ",", "%", "N/A" })

\* the cleaning loop of get_blinkit_data on one cell
CoercePandas ==
    /\ coerce_outcome = "idle"
    /\ coerce_outcome' = "kept"
    /\ coerced' = pandas_coerce(raw_value)
    /\ UNCHANGED <<raw_value, notCoerce>>

\* get_channel_data with clean_numeric=True on one cell: CAST(... AS NUMERIC)
\* raises on a text that is no number, the except branch returns an empty frame
CoerceSql ==
    /\ coerce_outcome = "idle"
    /\ IF is_decimal(sql_digits(raw_value))
       THEN /\ coerce_outcome' = "kept"
            /\ coerced' = decimal_value(sql_digits(raw_value))
       ELSE /\ coerce_outcome' = "failed"
            /\ coerced' = 0
    /\ UNCHANGED <<raw_value, notCoerce>>

\* one more piece of the raw cell
ReadPiece(p) ==
    /\ coerce_outcome = "idle"
    /\ Len(raw_value) < MaxLen
    /\ digit_count(Append(raw_value, p)) <= MaxDigits
    /\ raw_value' = Append(raw_value, p)
    /\ UNCHANGED <<coerce_outcome, coerced, notCoerce>>

NextCoerce ==
    \/ \E p \in Pieces : ReadPiece(p)
    \/ CoercePandas
    \/ CoerceSql

SpecCoerce == Idle /\ [][NextCoerce]_vars

\* the decimal number left once currency symbols, thousands separators and
\* percent signs are taken out of a text, 0 when what is left is no number
StrippedValue(value) ==
    LET text == strip_pieces(value, { "₹", ",", "%" })
    IN  IF is_decimal(text) THEN decimal_value(text) ELSE 0

\* C15: a coerced metric cell is the decimal number left after currency
\* symbols, thousands separators and percent signs are stripped, or 0 when
\* that is no number, and the row is kept: the load does not fail.
C15_LenientMetricCoercion ==
    coerce_outcome # "idle" =>
        /\ coerce_outcome = "kept"
        /\ coerced = StrippedValue(raw_value)

\* ------------------------------------------------ Blinkit sales dashboard
MaxDashRows == 3

\* pd.to_datetime(..., errors='coerce') of a text that is no date
NaT == -1
DashProducts == { "Razor", "Cup" }
\* the rows of femisafe_blinkit_salesdata, order_date as a day number or NaT
DashPool == [ product : DashProducts, order_date : { NaT, 1, 40 },
              net_revenue : { 100, 200 } ]

\* Series.max() of the dates: NaT entries are skipped, NaT when none is left
dash_max_date(rows) ==
    LET ds == { rows[i].order_date : i \in 1..Len(rows) } \ { NaT }
    IN  IF ds = {} THEN NaT ELSE Max(ds)

\* df_filtered of the page: the product filter, then the time filter
\* (a comparison with NaT is False, so "Last 30 Days" leaves NaT rows out)
dash_filtered(rows, selected_prod, time_period) ==
    LET by_prod == IF selected_prod = "All" THEN rows
                   ELSE SelectSeq(rows, LAMBDA r : r.product = selected_prod)
        max_date == dash_max_date(by_prod)
    IN  IF time_period = "Last 30 Days" /\ max_date # NaT
        THEN SelectSeq(by_prod, LAMBDA r : r.order_date # NaT
                                            /\ r.order_date >= max_date - 30)
        ELSE by_prod

\* groupby(['feeder_wh', 'product'], observed=True).agg(net_revenue='sum')
dash_summary(rows) ==
    [ p \in { rows[i].product : i \in 1..Len(rows) } |->
        SumField(SelectSeq(rows, LAMBDA r : r.product = p), "net_revenue") ]

\* page() of the Blinkit sales dashboard
BlinkitSalesDashboard(selected_prod, time_period) ==
    /\ dash_outcome = "idle"
    /\ LET df_f == dash_filtered(dash_df, selected_prod, time_period)
       IN  IF df_f = <<>>
           THEN /\ dash_outcome' = "nodata"
                /\ UNCHANGED <<total_rev, summary_df>>
           ELSE /\ dash_outcome' = "shown"
                /\ total_rev' = SumField(df_f, "net_revenue")
                /\ summary_df' = dash_summary(df_f)
    /\ UNCHANGED <<dash_df, notDash>>

\* one more row returned by the query of get_blinkit_data
FetchDash(rec) ==
    /\ dash_outcome = "idle"
    /\ Len(dash_df) < MaxDashRows
    /\ dash_df' = Append(dash_df, rec)
    /\ UNCHANGED <<dash_outcome, total_rev, summary_df, notDash>>

NextDash ==
    \/ \E rec \in DashPool : FetchDash(rec)
    \/ \E p \in DashProducts \cup { "All" }, t \in { "Last 30 Days", "All Time" } :
          BlinkitSalesDashboard(p, t)

SpecDash == Idle /\ [][NextDash]_vars

\* the loaded rows whose date was parsed
DatedRows == SelectSeq(dash_df, LAMBDA r : r.order_date # NaT)

\* C16: a record whose date cannot be parsed contributes to no row and no
\* total: the revenue KPI and the summary table of the dashboard hold the
\* revenue of dated records only.
C16_UndatedRecordsContributeNothing ==
    dash_outcome = "shown" =>
        /\ total_rev <= SumField(DatedRows, "net_revenue")
        /\ \A p \in DOMAIN summary_df :
              summary_df[p] <= SumField(SelectSeq(DatedRows, LAMBDA r : r.product = p),
                                        "net_revenue")

\* ---------------------------------------------------------- column lookup
MaxCols == 3

\* a column name: its lower-case spelling and how the source spells it
ColumnPool == [ name : { "product_name", "product", "item_name", "title" },
                cased : { "lower", "Title" } ]
\* what a lookup that found nothing returns (None, or the "ERROR: ..." text)
NoColumn == [ name |-> "", cased |-> "lower" ]

\* str.lower()
lower(c) == [ c EXCEPT !.cased = "lower" ]
\* a candidate of a synonym list, spelled in lower case as the code lists them
Cand(n) == [ name |-> n, cased |-> "lower" ]

\* the synonym list of the product column in process_data of the Swiggy report
ad_prod_candidates == << Cand("product_name"), Cand("product"), Cand("item_name") >>
\* the synonym list of get_valid_product_col
product_candidates ==
    << Cand("product_name"), Cand("product_title"), Cand("title"), Cand("product"),
       Cand("product_title_at_time"), Cand("product_title_at_time_of_sale"),
       Cand("lineitem_name"), Cand("item_name"), Cand("description") >>

\* col_map = {c.lower(): c for c in df.columns}: a later column replaces an
\* earlier one with the same lower-case spelling
col_map(cols) ==
    [ k \in { lower(cols[i]) : i \in 1..Len(cols) } |->
        cols[Max({ i \in 1..Len(cols) : lower(cols[i]) = k })] ]

\* find_col(df, candidates) on a frame that has rows
find_col(cols, candidates) ==
    LET hits == { i \in 1..Len(candidates) : lower(candidates[i]) \in DOMAIN col_map(cols) }
    IN  IF hits = {} THEN NoColumn
        ELSE col_map(cols)[lower(candidates[CHOOSE i \in hits : \A j \in hits : i <= j])]

\* get_valid_product_col: `candidate in actual_columns` compares the names as spelled
get_valid_product_col(cols, candidates) ==
    LET hits == { i \in 1..Len(candidates) :
                    \E j \in 1..Len(cols) : cols[j] = candidates[i] }
    IN  IF hits = {} THEN NoColumn
        ELSE candidates[CHOOSE i \in hits : \A j \in hits : i <= j]

\* process_data of the Swiggy ad report detects the product column
FindCol ==
    /\ lookup_by = "none"
    /\ lookup_by' = "find_col"
    /\ found_col' = find_col(src_columns, ad_prod_candidates)
    /\ UNCHANGED <<src_columns, notCols>>

\* the DRR report detects the product column of a channel table
GetValidProductCol ==
    /\ lookup_by = "none"
    /\ lookup_by' = "get_valid_product_col"
    /\ found_col' = get_valid_product_col(src_columns, product_candidates)
    /\ UNCHANGED <<src_columns, notCols>>

\* one more column of the source table; a table has no two columns of one name
AddColumn(c) ==
    /\ lookup_by = "none"
    /\ Len(src_columns) < MaxCols
    /\ \A i \in 1..Len(src_columns) : src_columns[i] # c
    /\ src_columns' = Append(src_columns, c)
    /\ UNCHANGED <<lookup_by, found_col, notCols>>

NextCols ==
    \/ \E c \in ColumnPool : AddColumn(c)
    \/ FindCol
    \/ GetValidProductCol

SpecCols == Idle /\ [][NextCols]_vars

\* the synonym list the lookup that ran was given
UsedCandidates ==
    IF lookup_by = "find_col" THEN ad_prod_candidates ELSE product_candidates
\* the positions of the candidates that some source column spells, whatever its case
PresentCandidates ==
    { i \in 1..Len(UsedCandidates) :
        \E j \in 1..Len(src_columns) : lower(src_columns[j]) = UsedCandidates[i] }

\* C17: a lookup returns a source column that spells, in any case, the
\* earliest candidate of the synonym list that is present among the source
\* columns, wherever that column stands in the table; it finds nothing only
\* when no candidate is present.
C17_FirstCandidateCaseInsensitive ==
    lookup_by # "none" =>
        IF PresentCandidates = {} THEN found_col = NoColumn
        ELSE /\ \E j \in 1..Len(src_columns) : src_columns[j] = found_col
             /\ lower(found_col) =
                    UsedCandidates[CHOOSE i \in PresentCandidates :
                                       \A k \in PresentCandidates : i <= k]

\* ------------------------------------------------ claims, display names
\* the labels the ad rows of the compared dates give to a product key
AdLabels(k) ==
    { r.product_name : r \in { x \in ad_filt(df_ad, target_date) :
                                  join_key(x.product_name) = k } }
\* the labels the sales rows of the compared dates give to a product key
SalesLabels(k) ==
    { r.product : r \in { x \in sales_filt(df_sales, target_date) :
                             join_key(x.product) = k } }

\* C18: on the Blinkit ad table, a product whose key has an ad row is shown
\* under the label of the ad source; the label of the sales source is shown
\* only for a key that has no ad row.
C18_AdLabelWinsPerKey ==
    (AdBuilt /\ ad_report = "BlinkitAdPage") =>
        \A i \in AdRows :
            ad_final[i].kind = "Product" =>
                LET k == join_key(ad_final[i].name)
                IN  IF AdLabels(k) # {}
                    THEN ad_final[i].name \in AdLabels(k)
                    ELSE ad_final[i].name \in SalesLabels(k)

\* ----------------------------------------------- Flipkart sales dashboard
MaxFkRows == 2
MaxFkRuns == 2
MaxFkNow  == 367

\* the fetched rows: a day number and the units sold
FkPool == [ date : { 0, 1, 200 }, units_sold : { 1, 2 } ]

\* clean_df[clean_df['date'] >= pd.Timestamp.now() - pd.Timedelta(days=365)]
last_year_rows(rows, now) == SelectSeq(rows, LAMBDA r : r.date >= now - 365)

\* df_fk.groupby('date', as_index=False)[...].sum(): date -> units sold
df_daily(rows) ==
    [ d \in { rows[i].date : i \in 1..Len(rows) } |->
        SumField(SelectSeq(rows, LAMBDA r : r.date = d), "units_sold") ]

\* what page() shows for the frame of get_flipkart_data
flipkart_page(rows, now) ==
    LET df_fk == last_year_rows(rows, now)
    IN  IF df_fk = <<>>
        THEN [ shown |-> "No Flipkart data available.", total_units |-> 0,
               df_daily |-> <<>> ]
        ELSE [ shown |-> "dashboard", total_units |-> SumField(df_fk, "units_sold"),
               df_daily |-> df_daily(df_fk) ]

\* one run of the Flipkart dashboard (the loader runs: nothing cached)
FlipkartDashboard ==
    /\ Len(fk_runs) < MaxFkRuns
    /\ fk_runs' = Append(fk_runs, flipkart_page(fk_rows, fk_now))
    /\ UNCHANGED <<fk_rows, fk_now, notFk>>

\* a day passes
FkTick ==
    /\ fk_now < MaxFkNow
    /\ fk_now' = fk_now + 1
    /\ UNCHANGED <<fk_rows, fk_runs, notFk>>

\* one more row in the table, before the dashboard is first shown
FetchFk(rec) ==
    /\ fk_runs = <<>>
    /\ Len(fk_rows) < MaxFkRows
    /\ fk_rows' = Append(fk_rows, rec)
    /\ UNCHANGED <<fk_now, fk_runs, notFk>>

NextFk ==
    \/ \E rec \in FkPool : FetchFk(rec)
    \/ FkTick
    \/ FlipkartDashboard

SpecFk == Idle /\ [][NextFk]_vars

\* C19: reports built from the same fetched rows are the same, whenever they
\* are built: no run depends on the clock.
C19_SameRowsSameReport ==
    \A i, j \in 1..Len(fk_runs) : fk_runs[i] = fk_runs[j]

\* ---------------------------------------------- claims, pure normalization
\* process_data of the Blinkit ad page ran past its two empty-frame returns
Normalized ==
    ad_report = "BlinkitAdPage" /\ df_ad # EmptyBag /\ df_sales # EmptyBag

\* C20: normalizing the ad rows leaves the frame the caller passed in as it
\* was: no column added, none overwritten.
C20_NormalizationLeavesRawFrame ==
    Normalized => ad_frame = RawAdFrame

\* ------------------------------------------------ product name normalizer
MaxWords == 2

\* the words product names are made of
Vocabulary == { "razors", "nipple", "pasties", "pimple", "patch", "panty", "liners", "sweat", "pad", "magnesium",
                "lotion", "intimate", "wash", "underarm", "rollon",
                "menstrual", "cups", "period", "cramp", "lubricants", "cup",
                "panties", "sterilizers", "energizer", "aloe", "gel", "razor", "roll-on", "relief" }

\* the keywords of normalize_product that are substrings of a word
KeywordsIn(w) ==
    CASE w = "razors"       -> { "razor" }
         [] w = "nipple"       -> { "nipple" }
         [] w = "pasties"      -> { "pasties" }
         [] w = "pimple"       -> { "pimple" }
         [] w = "patch"        -> { "patch" }
         [] w = "panty"        -> { "panty" }
         [] w = "liners"       -> { "liner" }
         [] w = "sweat"        -> { "sweat" }
         [] w = "pad"          -> { "pad" }
         [] w = "magnesium"    -> {}
         [] w = "lotion"       -> { "lotion" }
         [] w = "intimate"     -> {}
         [] w = "wash"         -> { "wash" }
         [] w = "underarm"     -> {}
         [] w = "rollon"       -> { "rollon" }
         [] w = "menstrual"    -> {}
         [] w = "cups"         -> { "cup" }
         [] w = "period"       -> {}
         [] w = "cramp"        -> { "cramp" }
         [] w = "lubricants"   -> { "lubricant" }
         [] w = "cup"          -> { "cup" }
         [] w = "panties"      -> {}
         [] w = "sterilizers"  -> { "sterilizer" }
         [] w = "energizer"    -> { "energizer" }
         [] w = "aloe"         -> { "aloe" }
         [] w = "gel"          -> { "gel" }
         [] w = "razor"        -> { "razor" }
         [] w = "roll-on"      -> { "roll-on" }
         [] w = "relief"       -> {}

\* `kw in name` for a keyword without a space: some word of the name holds it
has(name, kw) == \E i \in 1..Len(name) : kw \in KeywordsIn(name[i])
\* `"cup wash" in name`: a word ending in "cup", a space, a word starting with "wash"
has_cup_wash(name) ==
    \E i \in 1..(Len(name) - 1) : name[i] = "cup" /\ name[i + 1] = "wash"
\* `"period panties" in name`
has_period_panties(name) ==
    \E i \in 1..(Len(name) - 1) : name[i] = "period" /\ name[i + 1] = "panties"

\* a canonical label, as the title-cased words it is written with
Label(ws) == [ words |-> ws, cased |-> "Title" ]

\* normalize_product(name): the first rule whose keyword the lower-cased name
\* holds gives the label; a name no rule matches is title-cased
normalize_product(name) ==
    LET n == name.words
    IN  IF has(n, "razor") THEN Label(<<"razors">>)
        ELSE IF has(n, "nipple") \/ has(n, "pasties") THEN Label(<<"nipple", "pasties">>)
        ELSE IF has(n, "pimple") \/ has(n, "patch") THEN Label(<<"pimple", "patch">>)
        ELSE IF has(n, "liner") THEN Label(<<"panty", "liners">>)
        ELSE IF has(n, "sweat") \/ has(n, "pad") THEN Label(<<"sweat", "pad">>)
        ELSE IF has(n, "lotion") THEN Label(<<"magnesium", "lotion">>)
        ELSE IF has(n, "wash") THEN Label(<<"intimate", "wash">>)
        ELSE IF has(n, "rollon") \/ has(n, "roll-on") THEN Label(<<"underarm", "rollon">>)
        ELSE IF has(n, "cup") /\ ~has(n, "wash") THEN Label(<<"menstrual", "cups">>)
        ELSE IF has(n, "cramp") THEN Label(<<"period", "cramp", "rollon">>)
        ELSE IF has(n, "lubricant") THEN Label(<<"lubricants">>)
        ELSE IF has_cup_wash(n) THEN Label(<<"cup", "wash">>)
        ELSE IF has_period_panties(n) \/ has(n, "panty") THEN Label(<<"period", "panties">>)
        ELSE IF has(n, "sterilizer") THEN Label(<<"sterilizers">>)
        ELSE IF has(n, "energizer") THEN Label(<<"period", "energizer">>)
        ELSE IF has(n, "aloe") \/ has(n, "gel") THEN Label(<<"aloe", "gel">>)
        ELSE [ words |-> n, cased |-> "Title" ]

\* the canonical labels listed in normalize_product
CanonicalLabels ==
    { Label(<< "razors" >>),
      Label(<< "nipple", "pasties" >>),
      Label(<< "pimple", "patch" >>),
      Label(<< "panty", "liners" >>),
      Label(<< "sweat", "pad" >>),
      Label(<< "magnesium", "lotion" >>),
      Label(<< "intimate", "wash" >>),
      Label(<< "underarm", "rollon" >>),
      Label(<< "menstrual", "cups" >>),
      Label(<< "period", "cramp", "rollon" >>),
      Label(<< "lubricants" >>),
      Label(<< "cup", "wash" >>),
      Label(<< "period", "panties" >>),
      Label(<< "sterilizers" >>),
      Label(<< "period", "energizer" >>),
      Label(<< "aloe", "gel" >>) }

\* one more word of the raw product name
ReadWord(w) ==
    /\ norm_step = 0
    /\ Len(raw_name.words) < MaxWords
    /\ raw_name' = [ raw_name EXCEPT !.words = Append(@, w) ]
    /\ UNCHANGED <<norm_step, norm_once, norm_twice, notNorm>>

\* the raw name is spelled in title case
TitleCased ==
    /\ norm_step = 0
    /\ raw_name.cased = "lower"
    /\ raw_name' = [ raw_name EXCEPT !.cased = "Title" ]
    /\ UNCHANGED <<norm_step, norm_once, norm_twice, notNorm>>

\* df['Product'] = df['raw_product'].apply(normalize_product)
Normalize ==
    /\ norm_step = 0
    /\ norm_step' = 1
    /\ norm_once' = normalize_product(raw_name)
    /\ UNCHANGED <<raw_name, norm_twice, notNorm>>

\* an already normalized name is normalized again
NormalizeAgain ==
    /\ norm_step = 1
    /\ norm_step' = 2
    /\ norm_twice' = normalize_product(norm_once)
    /\ UNCHANGED <<raw_name, norm_once, notNorm>>

NextNorm ==
    \/ \E w \in Vocabulary : ReadWord(w)
    \/ TitleCased
    \/ Normalize
    \/ NormalizeAgain

SpecNorm == Idle /\ [][NextNorm]_vars

\* C29: normalizing a normalized product name returns it unchanged.
C29_NormalizeIdempotent ==
    norm_step = 2 => norm_twice = norm_once

\* ---------------------------------------------------------- data assistant
MaxPieces == 3

\* the pieces of an answer of the model: markdown code fences (three
\* backquotes, written ~~~ here), a query that runs and a query that does not
AnswerPieces == { "~~~sql", "~~~", "SELECT 1", "SELEC" }
\* response.text.strip() with the fence that opens an sql block and the bare
\* fence replaced by ""
strip_fences(txt) == SelectSeq(txt, LAMBDA p : p \notin { "~~~sql", "~~~" })
\* whether the database accepts a query
runs(q) == q = << "SELECT 1" >>
\* what the except branch reports when no query was generated
FailedToGenerate == << "Failed to generate" >>

\* one more piece of the answer the model will give
AnswerPiece(p) ==
    /\ ask_pc = "start"
    /\ generate_calls = 0
    /\ Len(response_text) < MaxPieces
    /\ response_text' = Append(response_text, p)
    /\ UNCHANGED <<ask_pc, sql_query, generate_calls, sql_runs, failed_at, ask_result, notAsk>>

\* Step A: generate the SQL; the call raises (api_ok false) or answers
GenerateSql(api_ok) ==
    /\ ask_pc = "start"
    /\ generate_calls' = generate_calls + 1
    /\ IF api_ok
       THEN /\ sql_query' = strip_fences(response_text)
            /\ ask_pc' = "run"
            /\ UNCHANGED <<failed_at, ask_result>>
       ELSE /\ ask_pc' = "done"
            /\ failed_at' = "generate"
            /\ ask_result' = [ success |-> FALSE, sql |-> FailedToGenerate ]
            /\ UNCHANGED sql_query
    /\ UNCHANGED <<response_text, sql_runs, notAsk>>

\* Step B: run the SQL; pd.read_sql raises on a query the database rejects
\* or on a lost connection (db_ok false), and the except branch returns
RunSql(db_ok) ==
    /\ ask_pc = "run"
    /\ sql_runs' = sql_runs + 1
    /\ IF db_ok /\ runs(sql_query)
       THEN /\ ask_pc' = "summarize"
            /\ UNCHANGED <<failed_at, ask_result>>
       ELSE /\ ask_pc' = "done"
            /\ failed_at' = "run"
            /\ ask_result' = [ success |-> FALSE, sql |-> sql_query ]
    /\ UNCHANGED <<response_text, sql_query, generate_calls, notAsk>>

\* Step C: summarize the answer with a second call of the model
Summarize(api_ok) ==
    /\ ask_pc = "summarize"
    /\ generate_calls' = generate_calls + 1
    /\ ask_pc' = "done"
    /\ IF api_ok
       THEN /\ ask_result' = [ success |-> TRUE, sql |-> sql_query ]
            /\ UNCHANGED failed_at
       ELSE /\ failed_at' = "summarize"
            /\ ask_result' = [ success |-> FALSE, sql |-> sql_query ]
    /\ UNCHANGED <<response_text, sql_query, sql_runs, notAsk>>

NextAsk ==
    \/ \E p \in AnswerPieces : AnswerPiece(p)
    \/ \E api_ok \in BOOLEAN : GenerateSql(api_ok)
    \/ \E db_ok \in BOOLEAN : RunSql(db_ok)
    \/ \E api_ok \in BOOLEAN : Summarize(api_ok)

SpecAsk == Idle /\ [][NextAsk]_vars

\* C23: a failure result that comes from running the generated SQL is
\* returned only after the model was asked again and a query was run again.
C23_RetryBeforeFailure ==
    (ask_pc = "done" /\ failed_at = "run") =>
        /\ generate_calls >= 2
        /\ sql_runs >= 2

\* ------------------------------------------------------------- DRR report
MaxDrrRows == 2

Channels == { "Amz", "Shp", "Blk" }
ReportDays == { "D1", "Curr" }
\* the six fetches of show_drr
ChannelDays == Channels \X ReportDays
\* raw product names of the channel tables
DrrNames == { [ words |-> <<"razor">>, cased |-> "lower" ],
              [ words |-> <<"razors">>, cased |-> "Title" ],
              [ words |-> <<"cup">>, cased |-> "lower" ] }
\* the rows of the channel tables on the two days of the report
DrrPool ==
    { [ channel |-> c, day |-> d, raw_product |-> n, units |-> m[1], revenue |-> m[2] ] :
        c \in Channels, d \in ReportDays, n \in DrrNames, m \in { <<1, 0>>, <<2, 100>> } }

\* a run in which no fetch raises, or one of the six does
FailureCases == { {} } \cup { { cd } : cd \in ChannelDays }

\* get_channel_data: the frame Product -> <<Units, Revenue>> of one channel
\* and day; the empty frame when the query raised
get_channel_data(rows, failed, c, d) ==
    IF <<c, d>> \in failed THEN <<>>
    ELSE LET mine == { r \in rows : r.channel = c /\ r.day = d }
             prods == { normalize_product(r.raw_product) : r \in mine }
             of(p) == { r \in mine : normalize_product(r.raw_product) = p }
         IN  [ p \in prods |->
                 << Sum([r \in of(p) |-> r.units]), Sum([r \in of(p) |-> r.revenue]) >> ]

\* merge_channel: the cell of a product, 0 where the channel frame has no row
merge_channel(data_df, p, i) == IF p \in DOMAIN data_df THEN data_df[p][i] ELSE 0

\* Share_Pct as the exact quotient num / den (in percent)
Share(num, den) == [ num |-> num, den |-> den ]
\* np.where(total_day_rev > 0, Total_Curr_Rev / total_day_rev * 100, 0)
share_pct(total_curr_rev, total_day_rev) ==
    IF total_day_rev > 0 THEN Share(total_curr_rev * 100, total_day_rev) ELSE Share(0, 1)

\* one product row of master_df
DrrRow(data, p, total_day_rev) ==
    LET units == [ cd \in ChannelDays |-> merge_channel(data[cd], p, 1) ]
        rev   == [ cd \in ChannelDays |-> merge_channel(data[cd], p, 2) ]
        tot(f, d) == f[<<"Amz", d>>] + f[<<"Shp", d>>] + f[<<"Blk", d>>]
    IN  [ Product |-> p, Units |-> units, Rev |-> rev,
          Growth |-> [ c \in Channels |-> calc_growth(rev[<<c, "Curr">>], rev[<<c, "D1">>]) ],
          Total_Curr_Units |-> tot(units, "Curr"), Total_Curr_Rev |-> tot(rev, "Curr"),
          Total_D1_Units |-> tot(units, "D1"), Total_D1_Rev |-> tot(rev, "D1"),
          Share_Pct |-> share_pct(tot(rev, "Curr"), total_day_rev) ]

GrandTotalName == [ words |-> <<"GRAND", "TOTAL">>, cased |-> "upper" ]

\* the Grand Total row: column sums, Share_Pct 100.0, growth of the summed revenue
DrrTotalRow(rs) ==
    LET col(f) == [ cd \in ChannelDays |-> Sum([i \in 1..Len(rs) |-> rs[i][f][cd]]) ]
        rev == col("Rev")
    IN  [ Product |-> GrandTotalName, Units |-> col("Units"), Rev |-> rev,
          Growth |-> [ c \in Channels |-> calc_growth(rev[<<c, "Curr">>], rev[<<c, "D1">>]) ],
          Total_Curr_Units |-> SumField(rs, "Total_Curr_Units"),
          Total_Curr_Rev |-> SumField(rs, "Total_Curr_Rev"),
          Total_D1_Units |-> SumField(rs, "Total_D1_Units"),
          Total_D1_Rev |-> SumField(rs, "Total_D1_Rev"),
          Share_Pct |-> Share(100, 1) ]

\* the tables show_drr can render from the six channel frames
drr_tables(data) ==
    LET all_products == UNION { DOMAIN data[cd] : cd \in ChannelDays }
        total_day_rev ==
            Sum([p \in all_products |->
                   merge_channel(data[<<"Amz", "Curr">>], p, 2)
                 + merge_channel(data[<<"Shp", "Curr">>], p, 2)
                 + merge_channel(data[<<"Blk", "Curr">>], p, 2)])
        row == [ p \in all_products |-> DrrRow(data, p, total_day_rev) ]
        order == SortValuesDesc(all_products,
                                [ p \in all_products |-> row[p].Total_Curr_Units ])
    IN  { LET rs == [ i \in 1..Len(o) |-> row[o[i]] ]
          IN  rs \o << DrrTotalRow(rs) >> : o \in order }

\* one run of show_drr; the fetches in `failed` raise inside get_channel_data
ShowDrr(failed) ==
    /\ drr_outcome = "idle"
    /\ drr_failed' = failed
    /\ LET data == [ cd \in ChannelDays |->
                       get_channel_data(drr_rows, failed, cd[1], cd[2]) ]
       IN  IF UNION { DOMAIN data[cd] : cd \in ChannelDays } = {}
           THEN /\ drr_outcome' = "nodata"
                /\ master_df' = <<>>
           ELSE /\ drr_outcome' = "table"
                /\ \E tbl \in drr_tables(data) : master_df' = tbl
    /\ UNCHANGED <<drr_rows, notDrr>>

\* one more row in a channel table
StoreDrr(rec) ==
    /\ drr_outcome = "idle"
    /\ Cardinality(drr_rows) < MaxDrrRows
    /\ rec \notin drr_rows
    /\ drr_rows' = drr_rows \cup { rec }
    /\ UNCHANGED <<drr_failed, drr_outcome, master_df, notDrr>>

NextDrr ==
    \/ \E rec \in DrrPool : StoreDrr(rec)
    \/ \E failed \in FailureCases : ShowDrr(failed)

SpecDrr == Idle /\ [][NextDrr]_vars

\* C21: when the fetch of a channel and day fails, no table is rendered.
C21_FailedChannelAbortsReport ==
    drr_failed # {} => drr_outcome # "table"

\* the product rows of a rendered DRR table
DrrProductRows == 1..(Len(master_df) - 1)
DrrGrandTotal == master_df[Len(master_df)]

\* C28: in a rendered DRR table every product has exactly one row, every
\* GRAND TOTAL units and revenue value is the sum of its column over the
\* product rows, and the Share_Pct of the product rows add up to the
\* Share_Pct of the GRAND TOTAL row.
C28_DrrTotalsAndShares ==
    drr_outcome = "table" =>
        /\ \A i, j \in DrrProductRows :
              master_df[i].Product = master_df[j].Product => i = j
        /\ \A cd \in ChannelDays :
              /\ DrrGrandTotal.Units[cd]
                    = Sum([i \in DrrProductRows |-> master_df[i].Units[cd]])
              /\ DrrGrandTotal.Rev[cd]
                    = Sum([i \in DrrProductRows |-> master_df[i].Rev[cd]])
        /\ DrrGrandTotal.Total_Curr_Rev
              = Sum([i \in DrrProductRows |-> master_df[i].Total_Curr_Rev])
        /\ \E den \in { master_df[i].Share_Pct.den : i \in DrrProductRows } :
              /\ \A i \in DrrProductRows : master_df[i].Share_Pct.den = den
              /\ Sum([i \in DrrProductRows |-> master_df[i].Share_Pct.num])
                    * DrrGrandTotal.Share_Pct.den
                 = DrrGrandTotal.Share_Pct.num * den

\* ------------------------------------------ metric columns of ad reports
MaxAdCols == 3
MaxSalesCols == 3

\* the columns an ad table and a sales table can have (both tables have rows)
AdColumnPool == { Cand("date"), Cand("estimated_budget_consumed"), Cand("spend"),
                  Cand("direct_sales") }
SalesColumnPool == { Cand("order_date"), Cand("gmv"), Cand("total_gross_bill_amount") }
\* a column written by `df[col] = 0`
ZeroFilled == [ name |-> "0", cased |-> "lower" ]

\* the synonym lists of process_data of the Swiggy report
ad_date_candidates == << Cand("date"), Cand("metrics_date"), Cand("created_at") >>
ad_spend_candidates == << Cand("estimated_budget_consumed"), Cand("ad_spend"),
                          Cand("total_budget_burnt"), Cand("spend") >>
sales_date_candidates == << Cand("order_date"), Cand("ordered_date"), Cand("date"),
                            Cand("created_at") >>
sales_rev_candidates == << Cand("gmv"), Cand("net_revenue"), Cand("item_total"),
                           Cand("total_bill_amount"), Cand("gross_sales"),
                           Cand("revenue") >>

\* `col in df.columns`
in_columns(cols, c) == \E i \in 1..Len(cols) : cols[i] = c

\* process_data of the Swiggy ad report, up to the cleaned metric columns
SwiggyProcessData ==
    /\ schema_report = "none"
    /\ schema_report' = "swiggy"
    /\ LET ad_spend_col  == find_col(ad_columns, ad_spend_candidates)
           sales_rev_col == find_col(sales_columns, sales_rev_candidates)
       IN  IF ad_spend_col = NoColumn
           THEN /\ schema_outcome' = "error"    \* "Could not find 'Ad Spend' column"
                /\ UNCHANGED <<spend_from, revenue_from>>
           ELSE IF find_col(ad_columns, ad_date_candidates) = NoColumn
           THEN /\ schema_outcome' = "raised"   \* df_ad['date']: KeyError
                /\ UNCHANGED <<spend_from, revenue_from>>
           ELSE IF sales_rev_col = NoColumn
           THEN /\ schema_outcome' = "error"    \* "Could not find Revenue column"
                /\ UNCHANGED <<spend_from, revenue_from>>
           ELSE IF find_col(sales_columns, sales_date_candidates) = NoColumn
           THEN /\ schema_outcome' = "raised"   \* df_sales['ordered_date']: KeyError
                /\ UNCHANGED <<spend_from, revenue_from>>
           ELSE /\ schema_outcome' = "table"
                /\ spend_from' = ad_spend_col
                /\ revenue_from' = sales_rev_col
    /\ UNCHANGED <<ad_columns, sales_columns, notSchema>>

\* get_data and process_data of the Blinkit ad report, up to the cleaned
\* metric columns; the sales query names its three columns
BlinkitProcessData ==
    /\ schema_report = "none"
    /\ schema_report' = "blinkit"
    /\ IF ~in_columns(sales_columns, Cand("order_date"))
          \/ ~in_columns(sales_columns, Cand("total_gross_bill_amount"))
       THEN /\ schema_outcome' = "nodata"       \* the query raises: two empty frames
            /\ UNCHANGED <<spend_from, revenue_from>>
       ELSE IF ~in_columns(ad_columns, Cand("date"))
       THEN /\ schema_outcome' = "raised"       \* df_ad['date']: KeyError
            /\ UNCHANGED <<spend_from, revenue_from>>
       ELSE /\ schema_outcome' = "table"
            /\ spend_from' = IF in_columns(ad_columns, Cand("estimated_budget_consumed"))
                             THEN Cand("estimated_budget_consumed") ELSE ZeroFilled
            /\ revenue_from' = Cand("total_gross_bill_amount")
    /\ UNCHANGED <<ad_columns, sales_columns, notSchema>>

\* one more column of the ad table
AddAdColumn(c) ==
    /\ schema_report = "none"
    /\ Len(ad_columns) < MaxAdCols
    /\ ~in_columns(ad_columns, c)
    /\ ad_columns' = Append(ad_columns, c)
    /\ UNCHANGED <<sales_columns, schema_report, schema_outcome, spend_from, revenue_from,
                   notSchema>>

\* one more column of the sales table
AddSalesColumn(c) ==
    /\ schema_report = "none"
    /\ Len(sales_columns) < MaxSalesCols
    /\ ~in_columns(sales_columns, c)
    /\ sales_columns' = Append(sales_columns, c)
    /\ UNCHANGED <<ad_columns, schema_report, schema_outcome, spend_from, revenue_from,
                   notSchema>>

NextSchema ==
    \/ \E c \in AdColumnPool : AddAdColumn(c)
    \/ \E c \in SalesColumnPool : AddSalesColumn(c)
    \/ SwiggyProcessData
    \/ BlinkitProcessData

SpecSchema == Idle /\ [][NextSchema]_vars

\* the candidate names of the ad spend column and of the revenue column of
\* the report that ran
SpendNames ==
    IF schema_report = "swiggy"
    THEN { ad_spend_candidates[i] : i \in 1..Len(ad_spend_candidates) }
    ELSE { Cand("estimated_budget_consumed") }
RevenueNames ==
    IF schema_report = "swiggy"
    THEN { sales_rev_candidates[i] : i \in 1..Len(sales_rev_candidates) }
    ELSE { Cand("total_gross_bill_amount") }

\* C22: when no candidate name of the ad spend column is among the ad
\* columns, or none of the revenue column among the sales columns, the
\* report is not built: no table comes from a zero-filled column.
C22_MissingMetricColumnIsFatal ==
    (schema_report # "none"
        /\ \/ \A c \in SpendNames : ~in_columns(ad_columns, c)
           \/ \A c \in RevenueNames : ~in_columns(sales_columns, c))
    => schema_outcome # "table"

\* ------------------------------------- claims, app.py SKU and City reports
\* the pivot the app.py report that ran was built from
AppPivot == pivot(df, Lat)
AppBuiltTable == Built /\ report \in { "AppSkuReport", "AppCityReport" }

\* C24: in a built SKU-wise or City-wise table of app.py, every (group,
\* child) row of the pivot is exactly one Leaf row, and the Grand Total is
\* the sum over all rows of the pivot, whatever the child is named.
C24_EveryPivotRowIsLeafAndCounted ==
    AppBuiltTable =>
        /\ \A k \in 1..Len(AppPivot) :
              Cardinality({ i \in Leaves : /\ final_df[i].top = AppPivot[k].top
                                           /\ final_df[i].child = AppPivot[k].child }) = 1
        /\ \A i \in Idx("GrandTotal") : \A m \in MetricNames : \A dt \in Periods :
              Val(final_df[i], m, dt)
                 = Sum([k \in 1..Len(AppPivot) |-> Val(AppPivot[k], m, dt)])

\* -------------------------------------------------------- daily email bot
MaxBotRows == 2

\* the sales values of a stored row
BotValues == { 0, 100 }
\* the calls of the send block, in order
SmtpCalls == << "SMTP", "starttls", "login", "send_message", "quit" >>
SmtpRank(c) == CHOOSE i \in 1..Len(SmtpCalls) : SmtpCalls[i] = c

\* DataFrame.empty
frame_always_full(frame) == FALSE
is_empty(frame) == frame = <<>>

\* one more row in a table, before the script runs
StoreBotRow(channel, v) ==
    /\ bot_pc = "start"
    /\ IF channel = "shopify"
       THEN /\ Len(shopify_table) < MaxBotRows
            /\ shopify_table' = Append(shopify_table, v)
            /\ UNCHANGED amazon_table
       ELSE /\ Len(amazon_table) < MaxBotRows
            /\ amazon_table' = Append(amazon_table, v)
            /\ UNCHANGED shopify_table
    /\ UNCHANGED <<bot_pc, fetch_failed, df_shopify, df_amazon, send_failed_at, emails_sent,
                   bot_log, bot_raised, notBot>>

\* get_data(): both frames, or two empty frames when the database raised
BotGetData(db_ok) ==
    /\ bot_pc = "start"
    /\ bot_pc' = "fetched"
    /\ fetch_failed' = ~db_ok
    /\ IF db_ok
       THEN /\ df_shopify' = shopify_table
            /\ df_amazon' = amazon_table
            /\ UNCHANGED bot_log
       ELSE /\ df_shopify' = <<>>
            /\ df_amazon' = <<>>
            /\ bot_log' = Append(bot_log, "Database Error")
    /\ UNCHANGED <<shopify_table, amazon_table, send_failed_at, emails_sent, bot_raised,
                   notBot>>

\* `if df_shopify.empty or df_amazon.empty: ... exit()`, else the totals and
\* the message are built
BotCheck ==
    /\ bot_pc = "fetched"
    /\ IF is_empty(df_shopify) \/ is_empty(df_amazon)
       THEN /\ bot_pc' = "done"
            /\ bot_log' = Append(bot_log, "Data missing. Aborting email.")
       ELSE /\ bot_pc' = "send"
            /\ UNCHANGED bot_log
    /\ UNCHANGED <<shopify_table, amazon_table, fetch_failed, df_shopify, df_amazon,
                   send_failed_at, emails_sent, bot_raised, notBot>>

\* the send block: the five SMTP calls in order inside one try; the call
\* `failed` raises, "none" when all succeed
BotSend(failed) ==
    /\ bot_pc = "send"
    /\ bot_pc' = "done"
    /\ send_failed_at' = failed
    /\ emails_sent' =
          IF failed = "none" \/ SmtpRank(failed) > SmtpRank("send_message")
          THEN emails_sent + 1 ELSE emails_sent
    /\ bot_log' = bot_log \o << "Sending email..." >>
                    \o (IF failed = "none" THEN << "Email sent successfully!" >>
                        ELSE << "Email Failed" >>)
    /\ UNCHANGED <<shopify_table, amazon_table, fetch_failed, df_shopify, df_amazon,
                   bot_raised, notBot>>

NextBot ==
    \/ \E c \in { "shopify", "amazon" }, v \in BotValues : StoreBotRow(c, v)
    \/ \E db_ok \in BOOLEAN : BotGetData(db_ok)
    \/ BotCheck
    \/ \E failed \in { "none" } \cup { SmtpCalls[i] : i \in 1..Len(SmtpCalls) } :
          BotSend(failed)

SpecBot == Idle /\ [][NextBot]_vars

\* the lines printed so far
Logged(line) == \E i \in 1..Len(bot_log) : bot_log[i] = line

\* C30: a run of the email bot sends at most one email; it sends none when
\* the database fetch failed or when the Shopify or the Amazon table gave no
\* row; a failing SMTP call is reported as "Email Failed" and no exception
\* leaves the script.
C30_AtMostOneEmailNoneWithoutData ==
    /\ emails_sent <= 1
    /\ (bot_pc # "start" /\ (fetch_failed \/ shopify_table = <<>> \/ amazon_table = <<>>))
          => emails_sent = 0
    /\ send_failed_at # "none" => Logged("Email Failed")
    /\ ~bot_raised

\* a run with data in both tables whose send_message call raised
C30_Witness ==
    /\ bot_pc = "done"
    /\ shopify_table # <<>> /\ amazon_table # <<>> /\ ~fetch_failed
    /\ send_failed_at = "send_message"
    /\ emails_sent = 0

\* -------------------------------------------------------- claims, ROAS
\* the ad spend of a period is greater than 0
SpendPositive(c) == IsFinite(c) /\ c[1] > 0
\* the two ROAS cells of a row are 0 for a period without spend
RoasGuarded(spend, direct_roas, roas) ==
    ~SpendPositive(spend) => (direct_roas = Num(0) /\ roas = Num(0))

\* C25: on every row of a built ad table, product rows and total row alike,
\* ROAS and Direct ROAS of a period are 0 when the ad spend of that period
\* is not greater than 0, and the total row's ROAS is its summed sales over
\* its summed spend.
C25_RoasZeroWithoutSpend ==
    AdBuilt =>
        \A i \in AdRows :
            LET r == ad_final[i]
            IN  /\ RoasGuarded(r.D1_Ad_Spend, r.D1_Direct_ROAS, r.D1_ROAS)
                /\ RoasGuarded(r.Curr_Ad_Spend, r.Curr_Direct_ROAS, r.Curr_ROAS)
                /\ (r.kind = "Total" /\ SpendPositive(r.Curr_Ad_Spend)) =>
                      r.Curr_ROAS = Num(RoundQuot(r.Curr_Gross_Sales[1] * 100,
                                                  r.Curr_Ad_Spend[1]))

\* ---------------------------------------------------- Flipkart header fix
MaxKeys == 3

\* a result key: a base name, the numbers appended to it as "_n", and whether
\* it is written with surrounding blanks
RawKeyPool == [ base : { "date", "sku" }, suffix : { <<>>, <<1>> }, padded : BOOLEAN ]

\* str(key).strip()
strip(key) == [ key EXCEPT !.padded = FALSE ]
\* f"{key_clean}_{n}"
with_suffix(key, n) == [ key EXCEPT !.suffix = Append(@, n) ]

RECURSIVE fix_duplicate_headers(_, _)
\* the loop over raw_keys: a key seen before is renamed with len(seen) and is
\* not added to seen
fix_duplicate_headers(keys, seen) ==
    IF keys = <<>> THEN <<>>
    ELSE LET key_clean == strip(Head(keys))
         IN  IF key_clean \in seen
             THEN << with_suffix(key_clean, Cardinality(seen)) >>
                      \o fix_duplicate_headers(Tail(keys), seen)
             ELSE << key_clean >>
                      \o fix_duplicate_headers(Tail(keys), seen \cup { key_clean })

\* step 2 of get_flipkart_data
FixHeaders ==
    /\ ~keys_fixed
    /\ keys_fixed' = TRUE
    /\ clean_keys' = fix_duplicate_headers(raw_keys, {})
    /\ UNCHANGED <<raw_keys, notHdr>>

\* one more column in the result of the query
ReadKey(k) ==
    /\ ~keys_fixed
    /\ Len(raw_keys) < MaxKeys
    /\ raw_keys' = Append(raw_keys, k)
    /\ UNCHANGED <<clean_keys, keys_fixed, notHdr>>

NextHdr ==
    \/ \E k \in RawKeyPool : ReadKey(k)
    \/ FixHeaders

SpecHdr == Idle /\ [][NextHdr]_vars

\* C26: after the duplicate-header fix no two columns have the same name.
C26_FixedHeadersDistinct ==
    keys_fixed =>
        \A i, j \in 1..Len(clean_keys) : clean_keys[i] = clean_keys[j] => i = j

\* ------------------------------------------------- claims, anchor date
PageRan == report \in { "PageCity", "PageProduct" }
\* the largest date among the loaded rows
MaxLoadedDate == Max({ r.date : r \in BagToSet(df) })

\* C27: when a Blinkit city-wise or product-wise page ran on a non-empty
\* frame, its table is built (the exit after date filtering is not taken),
\* the Current column is the largest loaded date, which some loaded row has,
\* and the only other columns are that date minus 1 and minus 7.
C27_AnchorIsMaxDateAndMatches ==
    (PageRan /\ df # EmptyBag) =>
        /\ outcome = "table"
        /\ MaxLoadedDate \in columns
        /\ columns \subseteq { MaxLoadedDate, MaxLoadedDate - 1, MaxLoadedDate - 7 }
        /\ \E i \in Leaves : \E m \in MetricNames : MaxLoadedDate \in DOMAIN final_df[i][m]

\* a page built with all three periods present
C27_Witness ==
    /\ PageRan
    /\ outcome = "table"
    /\ columns = { MaxLoadedDate, MaxLoadedDate - 1, MaxLoadedDate - 7 }

====
